---- MODULE Spec2Model ----
(***************************************************************************)
(* Model of the ads-bby ingestion / fusion / enrichment core:              *)
(*   src/bby/api/DumpSlurp.py   local-feed ingestor (DumpSlurp)            *)
(*   src/bby/api/Hybrid.py      fusion store and enrichment (HybridAPI)    *)
(*                                                                         *)
(* Text is a sequence of one-character strings, so that strip() is a       *)
(* computation.  Time is the integer wall clock `now`.                     *)
(*                                                                         *)
(* The OpenSkyData class used by Hybrid.py and DumpSlurp.py (constructor   *)
(* keywords source= and last_position=, attribute aircraft_type, method    *)
(* merge) is not the dataclass of src/bby/models/Aircraft.py, which has    *)
(* none of them; the fields are taken from their uses in the two callers   *)
(* and merge is modelled from the specification text.                      *)
(*                                                                         *)
(* Specifications:                                                         *)
(*   Spec           both feeds into the fusion store, no enrichment        *)
(*   SpecEnrich     remote feed, request_enrich and the enrichment worker  *)
(*   SpecReentrant  SpecEnrich with an observer calling request_enrich     *)
(*   SpecMerge      two states of one aircraft merged in both orders       *)
(*   SpecQuiet      _can_process_flightaware_request over quiet windows    *)
(*   SpecDayQuiet   SpecEnrich with a quiet window inside one day          *)
(*   SpecCountry    get_country_from_icao24 over addresses                 *)
(*   SpecLine       one well-formed line through reader and callback       *)
(*   SpecSnapshot   SpecEnrich with a caller keeping a snapshot            *)
(*   SpecObservers  SpecEnrich with observers, one of them raising         *)
(*   SpecRemote     remote-only mode, the poller alone                     *)
(*   SpecWorkers    the four worker loops and their failures, fair         *)
(*   SpecStop       SpecWorkers with stop()                                *)
(*   SpecStarve     the enrichment under a clock that never stops, fair    *)
(*   SpecBlank      SpecEnrich with a remote callsign of spaces            *)
(*   SpecStale      SpecEnrich with polls that repeat an old state         *)
(*   SpecShard      _fetch_aircraft over the shard documents               *)
(*   SpecCache      repeated type lookups against the shard cache          *)
(*   SpecFrame      a byte stream received in chunks of any size           *)
(*   SpecLegs       the choice of the leg of an enrichment answer          *)
(*   SpecLookup     the local feed with type lookups that may raise        *)
(*   SpecFetch      the reader's type lookup against DumpSlurp._lock       *)
(*   SpecLife       sequences of start() and stop() and their threads      *)
(*   SpecEvict      the local feed alone with a running clock, fair        *)
(*   SpecLocal      the local feed alone, any sequence of lines            *)
(***************************************************************************)
EXTENDS Integers, Sequences, FiniteSets, TLC

(***************************************************************************)
(* Bounds of the model                                                     *)
(***************************************************************************)
\* the wall clock stops advancing here
MaxNow == 60
\* the wall clock is observed every ClockStep seconds
ClockStep == 30
\* config.api.aircraft_expire_seconds chosen for the model
ExpireSeconds == 30
\* aircraft_expire_seconds of the enrichment runs: shorter than a clock step
ShortExpireSeconds == 20
\* config.api.max_flightaware_requests_per_minute chosen for the model
MaxPerMinute == 1

(***************************************************************************)
(* Program constants                                                       *)
(***************************************************************************)
\* Hybrid.py:285  "if now - t < 60"
RateWindowSeconds == 60
\* DumpSlurp.py:370  "if len(fields) < 22"
MinFields == 22

(***************************************************************************)
(* Optional values, text, lists and dictionaries                           *)
(***************************************************************************)
\* Python's None and a present value v
None == <<>>
Some(v) == <<v>>
Val(x) == x[1]

IsSpace(c) == c = " "

RECURSIVE LStrip(_)
LStrip(s) == IF s # <<>> /\ IsSpace(Head(s)) THEN LStrip(Tail(s)) ELSE s

RECURSIVE RStrip(_)
RStrip(s) ==
  IF s # <<>> /\ IsSpace(s[Len(s)]) THEN RStrip(SubSeq(s, 1, Len(s) - 1)) ELSE s

\* str.strip()
strip(s) == RStrip(LStrip(s))

\* Python truthiness of an Optional[str]
Truthy(x) == x # None /\ Val(x) # <<>>

SeqToSet(s) == {s[i] : i \in 1..Len(s)}

\* list.remove(x): removes the first occurrence (the caller checks presence)
RECURSIVE list_remove(_, _)
list_remove(s, x) ==
  IF s = <<>> THEN <<>>
  ELSE IF Head(s) = x THEN Tail(s)
  ELSE <<Head(s)>> \o list_remove(Tail(s), x)

\* d[k] = v  and  del d[k] for k in K
Put(d, k, v) == [j \in DOMAIN d \cup {k} |-> IF j = k THEN v ELSE d[j]]
Del(d, K) == [j \in DOMAIN d \ K |-> d[j]]
EmptyDict == [j \in {} |-> None]

(***************************************************************************)
(* Aircraft identifiers and records                                        *)
(***************************************************************************)
Ids == {<<"a", "1">>, <<"b", "2">>}

\* the optional fields an update may or may not carry
OptFields == {"callsign", "baro_altitude", "velocity", "true_track",
              "latitude", "longitude", "vertical_rate", "squawk"}

\* OpenSkyData(icao24=...) with every optional field defaulted
NewOpenSkyData ==
  [callsign |-> None, last_contact |-> 0, last_position |-> None,
   baro_altitude |-> None, velocity |-> None, true_track |-> None,
   latitude |-> None, longitude |-> None, vertical_rate |-> None,
   squawk |-> None, spi |-> FALSE, on_ground |-> FALSE]

\* OpenSkyData.merge(other): take every field the incoming state carries,
\* leave the others untouched
merge(cur, inc) ==
  [f \in DOMAIN cur |->
     IF f \in OptFields \cup {"last_position"}
     THEN IF inc[f] # None THEN inc[f] ELSE cur[f]
     ELSE inc[f]]

\* the local variable `aircraft` of _enrich_with_flightaware: a reference to
\* the table's record (live), or to a record deleted since, with the
\* callsign it had
NoAircraft == [live |-> FALSE, callsign |-> None]

\* Aircraft(opensky=state): adopts the state object itself; `shared` records
\* that the object is also the ingestor's entry for the id
NewAircraft(state, isShared) ==
  [opensky |-> state, flightaware |-> None, shared |-> isShared]

(***************************************************************************)
(* State                                                                   *)
(***************************************************************************)
VARIABLES
  now,               \* wall clock: datetime.now().timestamp(), time.time()
  cfg,               \* BBYConfig.api: the configuration the service runs with
  aircraft,          \* DumpSlurp.aircraft: hex id -> OpenSkyData
  rd_pc,             \* DumpSlurp._run: position of the socket reader
  cb_pc,             \* DumpSlurp._callback_loop: position of the callback thread
  cb_list,           \* the aircraft_list the callback thread has taken
  current_aircraft,  \* HybridAPI.current_aircraft: icao24 -> Aircraft
  lock,              \* HybridAPI.lock: "free" or the thread holding it
  blocked,           \* threads waiting for a lock they hold themselves
  fa_queue,          \* HybridAPI.fa_queue
  fa_request_times,  \* HybridAPI.fa_request_times
  fa_cache,          \* HybridAPI.fa_cache: callsign -> response
  fa_pc,             \* _flightaware_enrich_loop: position of the drain worker
  unenriched,        \* its list of eligible ids, the part not yet visited
  fa_icao24,         \* its loop variable
  enr_aircraft,      \* _enrich_with_flightaware: the record read at line 314
  enr_data,          \* _enrich_with_flightaware: fa_data
  rq_pc,             \* request_enrich: position of the calling thread
  rq_icao24,         \* request_enrich: its argument
  http_log,          \* times of the HTTP requests of the last minute
  handed,            \* ids handed to the client since their record exists
  twice,             \* ids handed to the client again for the same record
  on_aircraft_updated, \* HybridAPI.on_aircraft_updated: the observers
  call_args,         \* arguments of the function a function-level run applies
  call_result,       \* what the function returned, None before the call
  snapshot,          \* the list a caller of get_current_aircraft holds
  running,           \* HybridAPI.running
  dump_running,      \* DumpSlurp._running
  inflight,          \* workers that were inside an iteration when stop() ran
  exited,            \* workers whose loop has ended
  po_pc,             \* _opensky_poll_loop: position of the poller
  notified,          \* the observers the last notification has invoked
  unannounced        \* ids whose enrichment was written with no notification
                     \* since

dumpVars == <<aircraft, rd_pc, cb_pc, cb_list>>
storeVars == <<current_aircraft, lock, blocked>>
\* the enrichment state a merge batch leaves alone
enrichVars == <<fa_queue, fa_request_times, fa_cache, fa_pc, unenriched,
                fa_icao24, enr_data, rq_pc, rq_icao24, http_log>>
\* what an eviction changes for the enrichment in progress
hookVars == <<enr_aircraft, handed, twice>>
\* the state of the function-level runs
pureVars == <<call_args, call_result>>
\* the flags of start()/stop() and what the workers have made of them
runVars == <<running, dump_running, inflight, exited>>
vars == <<now, cfg, aircraft, rd_pc, cb_pc, cb_list, current_aircraft, lock,
          blocked, fa_queue, fa_request_times, fa_cache, fa_pc, unenriched,
          fa_icao24, enr_aircraft, enr_data, rq_pc, rq_icao24, http_log,
          handed, twice, on_aircraft_updated, call_args, call_result,
          snapshot, running, dump_running, inflight, exited, po_pc, notified,
          unannounced>>

(***************************************************************************)
(* DumpSlurp._process_message                                              *)
(***************************************************************************)
\* str.lower() on the hex digits the feed can send
LowerChar(c) == CASE c = "A" -> "a" [] c = "B" -> "b" [] OTHER -> c
\* the hex ident kept as the feed writes it
lower_AsWritten(s) == s

lower(s) == [i \in 1..Len(s) |-> LowerChar(s[i])]

\* unit conversions of lines 405-407 (/ 3.28084, / 1.94384, / 196.85) on
\* integers: floor of the quotient, factors to four decimal places
FeetToMeters(x) == IF x = None THEN None ELSE Some((Val(x) * 10000) \div 32808)
KnotsToMps(x) == IF x = None THEN None ELSE Some((Val(x) * 10000) \div 19438)
FpmToMps(x) == IF x = None THEN None ELSE Some((Val(x) * 100) \div 19685)

\* "if v is not None: field = v"
Carry(v, old) == IF v # None THEN v ELSE old

\* "fields[k].strip() if fields[k].strip() else None"
StripOrNone(text) == IF strip(text) # <<>> THEN Some(strip(text)) ELSE None

\* the update with "opensky.callsign = callsign" outside its "if callsign:"
UpdateOpenSky_Overwrite(o, m, logged_timestamp) ==
  [o EXCEPT
     !.last_contact = logged_timestamp,
     !.callsign = StripOrNone(m.callsign),
     !.baro_altitude = Carry(FeetToMeters(m.altitude), @),
     !.velocity = Carry(KnotsToMps(m.ground_speed), @),
     !.true_track = Carry(m.track, @),
     !.latitude = Carry(m.lat, @),
     !.longitude = Carry(m.lon, @),
     !.vertical_rate = Carry(FpmToMps(m.vertical_rate), @),
     !.squawk = Carry(StripOrNone(m.squawk), @),
     !.spi = m.spi,
     !.on_ground = m.on_ground,
     !.last_position =
        IF m.lat # None /\ m.lon # None THEN Some(logged_timestamp) ELSE @]

\* lines 420-446: the in-place update of one OpenSkyData object
UpdateOpenSky(o, m, logged_timestamp) ==
  [o EXCEPT
     !.last_contact = logged_timestamp,
     !.callsign = Carry(StripOrNone(m.callsign), @),
     !.baro_altitude = Carry(FeetToMeters(m.altitude), @),
     !.velocity = Carry(KnotsToMps(m.ground_speed), @),
     !.true_track = Carry(m.track, @),
     !.latitude = Carry(m.lat, @),
     !.longitude = Carry(m.lon, @),
     !.vertical_rate = Carry(FpmToMps(m.vertical_rate), @),
     !.squawk = Carry(StripOrNone(m.squawk), @),
     !.spi = m.spi,
     !.on_ground = m.on_ground,
     !.last_position =
        IF m.lat # None /\ m.lon # None THEN Some(logged_timestamp) ELSE @]

\* the handler without the returns of lines 370-371 and 377-378
process_message_NoReturn(m) ==
  LET hex_ident == lower(strip(m.hex))
      logged_timestamp == IF m.logged = None THEN now ELSE Val(m.logged)
      isNew == hex_ident \notin DOMAIN aircraft
      opensky == IF isNew THEN NewOpenSkyData ELSE aircraft[hex_ident]
      updated == UpdateOpenSky(opensky, m, logged_timestamp)
  IN /\ aircraft' = Put(aircraft, hex_ident, updated)
     /\ UNCHANGED current_aircraft

\* the whole handler; the object it updates in place is also the store's
\* record when the store has adopted it (shared)
process_message(m) ==
  LET hex_ident == lower(strip(m.hex))
      logged_timestamp == IF m.logged = None THEN now ELSE Val(m.logged)
  IN IF m.n < MinFields \/ hex_ident = <<>>
     THEN UNCHANGED <<aircraft, current_aircraft>>
     ELSE LET isNew == hex_ident \notin DOMAIN aircraft
              opensky == IF isNew THEN NewOpenSkyData ELSE aircraft[hex_ident]
              \* lines 416-418: the new object is in the table when the type
              \* lookup runs; an exception of the lookup leaves the handler
              \* through the except clause of line 448
              updated == IF isNew /\ m.raises THEN NewOpenSkyData
                         ELSE UpdateOpenSky(opensky, m, logged_timestamp)
          IN /\ aircraft' = Put(aircraft, hex_ident, updated)
             /\ current_aircraft' =
                  IF /\ ~isNew
                     /\ hex_ident \in DOMAIN current_aircraft
                     /\ current_aircraft[hex_ident].shared
                  THEN [current_aircraft EXCEPT ![hex_ident].opensky = updated]
                  ELSE current_aircraft

\* DumpSlurp._expire_old_aircraft; the deleted objects stay referenced by a
\* list the callback thread has already taken and by the store, where the
\* ingestor no longer updates them
ExpiredIn(table) ==
  {i \in DOMAIN table : now - table[i].last_contact > cfg.aircraft_expire_seconds}

expire_old_aircraft ==
  LET expired == ExpiredIn(aircraft)
  IN /\ aircraft' = Del(aircraft, expired)
     /\ cb_list' = [i \in DOMAIN cb_list |->
          IF i \in expired /\ cb_list[i] = None THEN Some(aircraft[i])
          ELSE cb_list[i]]
     /\ current_aircraft' = [i \in DOMAIN current_aircraft |->
          IF i \in expired THEN [current_aircraft[i] EXCEPT !.shared = FALSE]
          ELSE current_aircraft[i]]

(***************************************************************************)
(* DumpSlurp.get_country_from_icao24                                       *)
(***************************************************************************)
\* ICAO24_RANGES (lines 46-237): start, end, country code, country name;
\* names in ASCII
ICAO24_RANGES ==
  <<
    <<<<"0", "0", "0", "0", "0", "0">>, <<"0", "0", "3", "F", "F", "F">>, "", "Unallocated">>,
    <<<<"0", "0", "4", "0", "0", "0">>, <<"0", "0", "4", "3", "F", "F">>, "ZW", "Zimbabwe">>,
    <<<<"0", "0", "6", "0", "0", "0">>, <<"0", "0", "6", "F", "F", "F">>, "MZ", "Mozambique">>,
    <<<<"0", "0", "8", "0", "0", "0">>, <<"0", "0", "F", "F", "F", "F">>, "ZA", "South Africa">>,
    <<<<"0", "1", "0", "0", "0", "0">>, <<"0", "1", "7", "F", "F", "F">>, "EG", "Egypt">>,
    <<<<"0", "1", "8", "0", "0", "0">>, <<"0", "1", "F", "F", "F", "F">>, "LY", "Libya">>,
    <<<<"0", "2", "0", "0", "0", "0">>, <<"0", "2", "7", "F", "F", "F">>, "MA", "Morocco">>,
    <<<<"0", "2", "8", "0", "0", "0">>, <<"0", "2", "F", "F", "F", "F">>, "TN", "Tunisia">>,
    <<<<"0", "3", "0", "0", "0", "0">>, <<"0", "3", "0", "3", "F", "F">>, "BW", "Botswana">>,
    <<<<"0", "3", "2", "0", "0", "0">>, <<"0", "3", "2", "F", "F", "F">>, "BI", "Burundi">>,
    <<<<"0", "3", "4", "0", "0", "0">>, <<"0", "3", "4", "F", "F", "F">>, "CM", "Cameroon">>,
    <<<<"0", "3", "5", "0", "0", "0">>, <<"0", "3", "5", "3", "F", "F">>, "KM", "Comoros">>,
    <<<<"0", "3", "6", "0", "0", "0">>, <<"0", "3", "6", "F", "F", "F">>, "CG", "Congo">>,
    <<<<"0", "3", "8", "0", "0", "0">>, <<"0", "3", "8", "F", "F", "F">>, "CI", "Cote d'Ivoire">>,
    <<<<"0", "3", "E", "0", "0", "0">>, <<"0", "3", "E", "F", "F", "F">>, "GA", "Gabon">>,
    <<<<"0", "4", "0", "0", "0", "0">>, <<"0", "4", "0", "F", "F", "F">>, "ET", "Ethiopia">>,
    <<<<"0", "4", "2", "0", "0", "0">>, <<"0", "4", "2", "F", "F", "F">>, "GQ", "Equatorial Guinea">>,
    <<<<"0", "4", "4", "0", "0", "0">>, <<"0", "4", "4", "F", "F", "F">>, "GH", "Ghana">>,
    <<<<"0", "4", "6", "0", "0", "0">>, <<"0", "4", "6", "F", "F", "F">>, "GN", "Guinea">>,
    <<<<"0", "4", "8", "0", "0", "0">>, <<"0", "4", "8", "3", "F", "F">>, "GW", "Guinea-Bissau">>,
    <<<<"0", "4", "A", "0", "0", "0">>, <<"0", "4", "A", "3", "F", "F">>, "LS", "Lesotho">>,
    <<<<"0", "4", "C", "0", "0", "0">>, <<"0", "4", "C", "F", "F", "F">>, "KE", "Kenya">>,
    <<<<"0", "5", "0", "0", "0", "0">>, <<"0", "5", "0", "F", "F", "F">>, "LR", "Liberia">>,
    <<<<"0", "5", "4", "0", "0", "0">>, <<"0", "5", "4", "F", "F", "F">>, "MG", "Madagascar">>,
    <<<<"0", "5", "8", "0", "0", "0">>, <<"0", "5", "8", "F", "F", "F">>, "MW", "Malawi">>,
    <<<<"0", "5", "A", "0", "0", "0">>, <<"0", "5", "A", "3", "F", "F">>, "MV", "Maldives">>,
    <<<<"0", "5", "C", "0", "0", "0">>, <<"0", "5", "C", "F", "F", "F">>, "ML", "Mali">>,
    <<<<"0", "5", "E", "0", "0", "0">>, <<"0", "5", "E", "3", "F", "F">>, "MR", "Mauritania">>,
    <<<<"0", "6", "0", "0", "0", "0">>, <<"0", "6", "0", "3", "F", "F">>, "MU", "Mauritius">>,
    <<<<"0", "6", "2", "0", "0", "0">>, <<"0", "6", "2", "F", "F", "F">>, "NE", "Niger">>,
    <<<<"0", "6", "4", "0", "0", "0">>, <<"0", "6", "4", "F", "F", "F">>, "NG", "Nigeria">>,
    <<<<"0", "6", "8", "0", "0", "0">>, <<"0", "6", "8", "F", "F", "F">>, "UG", "Uganda">>,
    <<<<"0", "6", "A", "0", "0", "0">>, <<"0", "6", "A", "3", "F", "F">>, "QA", "Qatar">>,
    <<<<"0", "6", "C", "0", "0", "0">>, <<"0", "6", "C", "F", "F", "F">>, "CF", "Central African Republic">>,
    <<<<"0", "6", "E", "0", "0", "0">>, <<"0", "6", "E", "F", "F", "F">>, "RW", "Rwanda">>,
    <<<<"0", "7", "0", "0", "0", "0">>, <<"0", "7", "0", "F", "F", "F">>, "SN", "Senegal">>,
    <<<<"0", "7", "4", "0", "0", "0">>, <<"0", "7", "4", "3", "F", "F">>, "SC", "Seychelles">>,
    <<<<"0", "7", "6", "0", "0", "0">>, <<"0", "7", "6", "3", "F", "F">>, "SL", "Sierra Leone">>,
    <<<<"0", "7", "8", "0", "0", "0">>, <<"0", "7", "8", "F", "F", "F">>, "SO", "Somalia">>,
    <<<<"0", "7", "A", "0", "0", "0">>, <<"0", "7", "A", "3", "F", "F">>, "SZ", "Eswatini">>,
    <<<<"0", "7", "C", "0", "0", "0">>, <<"0", "7", "C", "F", "F", "F">>, "SD", "Sudan">>,
    <<<<"0", "8", "0", "0", "0", "0">>, <<"0", "8", "0", "F", "F", "F">>, "TZ", "Tanzania">>,
    <<<<"0", "8", "4", "0", "0", "0">>, <<"0", "8", "4", "F", "F", "F">>, "TD", "Chad">>,
    <<<<"0", "8", "8", "0", "0", "0">>, <<"0", "8", "8", "F", "F", "F">>, "TG", "Togo">>,
    <<<<"0", "8", "A", "0", "0", "0">>, <<"0", "8", "A", "F", "F", "F">>, "ZM", "Zambia">>,
    <<<<"0", "8", "C", "0", "0", "0">>, <<"0", "8", "C", "F", "F", "F">>, "CD", "DR Congo">>,
    <<<<"0", "9", "0", "0", "0", "0">>, <<"0", "9", "0", "F", "F", "F">>, "AO", "Angola">>,
    <<<<"0", "9", "4", "0", "0", "0">>, <<"0", "9", "4", "3", "F", "F">>, "BJ", "Benin">>,
    <<<<"0", "9", "6", "0", "0", "0">>, <<"0", "9", "6", "3", "F", "F">>, "CV", "Cape Verde">>,
    <<<<"0", "9", "8", "0", "0", "0">>, <<"0", "9", "8", "3", "F", "F">>, "DJ", "Djibouti">>,
    <<<<"0", "9", "A", "0", "0", "0">>, <<"0", "9", "A", "F", "F", "F">>, "GM", "Gambia">>,
    <<<<"0", "9", "C", "0", "0", "0">>, <<"0", "9", "C", "F", "F", "F">>, "BF", "Burkina Faso">>,
    <<<<"0", "9", "E", "0", "0", "0">>, <<"0", "9", "E", "3", "F", "F">>, "ST", "Sao Tome">>,
    <<<<"0", "A", "0", "0", "0", "0">>, <<"0", "A", "7", "F", "F", "F">>, "DZ", "Algeria">>,
    <<<<"0", "A", "8", "0", "0", "0">>, <<"0", "A", "8", "F", "F", "F">>, "BS", "Bahamas">>,
    <<<<"0", "A", "A", "0", "0", "0">>, <<"0", "A", "A", "3", "F", "F">>, "BB", "Barbados">>,
    <<<<"0", "A", "B", "0", "0", "0">>, <<"0", "A", "B", "3", "F", "F">>, "BZ", "Belize">>,
    <<<<"0", "A", "C", "0", "0", "0">>, <<"0", "A", "C", "F", "F", "F">>, "CO", "Colombia">>,
    <<<<"0", "A", "E", "0", "0", "0">>, <<"0", "A", "E", "F", "F", "F">>, "CR", "Costa Rica">>,
    <<<<"0", "B", "0", "0", "0", "0">>, <<"0", "B", "0", "F", "F", "F">>, "CU", "Cuba">>,
    <<<<"0", "B", "2", "0", "0", "0">>, <<"0", "B", "2", "F", "F", "F">>, "SV", "El Salvador">>,
    <<<<"0", "B", "4", "0", "0", "0">>, <<"0", "B", "4", "F", "F", "F">>, "GT", "Guatemala">>,
    <<<<"0", "B", "6", "0", "0", "0">>, <<"0", "B", "6", "F", "F", "F">>, "GY", "Guyana">>,
    <<<<"0", "B", "8", "0", "0", "0">>, <<"0", "B", "8", "F", "F", "F">>, "HT", "Haiti">>,
    <<<<"0", "B", "A", "0", "0", "0">>, <<"0", "B", "A", "F", "F", "F">>, "HN", "Honduras">>,
    <<<<"0", "B", "C", "0", "0", "0">>, <<"0", "B", "C", "3", "F", "F">>, "VC", "St. Vincent & Grenadines">>,
    <<<<"0", "B", "E", "0", "0", "0">>, <<"0", "B", "E", "F", "F", "F">>, "JM", "Jamaica">>,
    <<<<"0", "C", "0", "0", "0", "0">>, <<"0", "C", "0", "F", "F", "F">>, "NI", "Nicaragua">>,
    <<<<"0", "C", "2", "0", "0", "0">>, <<"0", "C", "2", "F", "F", "F">>, "PA", "Panama">>,
    <<<<"0", "C", "4", "0", "0", "0">>, <<"0", "C", "4", "F", "F", "F">>, "DO", "Dominican Republic">>,
    <<<<"0", "C", "6", "0", "0", "0">>, <<"0", "C", "6", "F", "F", "F">>, "TT", "Trinidad and Tobago">>,
    <<<<"0", "C", "8", "0", "0", "0">>, <<"0", "C", "8", "F", "F", "F">>, "SR", "Suriname">>,
    <<<<"0", "C", "A", "0", "0", "0">>, <<"0", "C", "A", "3", "F", "F">>, "AG", "Antigua & Barbuda">>,
    <<<<"0", "C", "C", "0", "0", "0">>, <<"0", "C", "C", "3", "F", "F">>, "GD", "Grenada">>,
    <<<<"0", "D", "0", "0", "0", "0">>, <<"0", "D", "7", "F", "F", "F">>, "MX", "Mexico">>,
    <<<<"0", "D", "8", "0", "0", "0">>, <<"0", "D", "F", "F", "F", "F">>, "VE", "Venezuela">>,
    <<<<"1", "0", "0", "0", "0", "0">>, <<"1", "F", "F", "F", "F", "F">>, "RU", "Russia">>,
    <<<<"2", "0", "1", "0", "0", "0">>, <<"2", "0", "1", "3", "F", "F">>, "NA", "Namibia">>,
    <<<<"2", "0", "2", "0", "0", "0">>, <<"2", "0", "2", "3", "F", "F">>, "ER", "Eritrea">>,
    <<<<"3", "0", "0", "0", "0", "0">>, <<"3", "3", "F", "F", "F", "F">>, "IT", "Italy">>,
    <<<<"3", "4", "0", "0", "0", "0">>, <<"3", "7", "F", "F", "F", "F">>, "ES", "Spain">>,
    <<<<"3", "8", "0", "0", "0", "0">>, <<"3", "B", "F", "F", "F", "F">>, "FR", "France">>,
    <<<<"3", "C", "0", "0", "0", "0">>, <<"3", "F", "F", "F", "F", "F">>, "DE", "Germany">>,
    <<<<"4", "0", "0", "0", "0", "0">>, <<"4", "3", "F", "F", "F", "F">>, "GB", "United Kingdom">>,
    <<<<"4", "4", "0", "0", "0", "0">>, <<"4", "4", "7", "F", "F", "F">>, "AT", "Austria">>,
    <<<<"4", "4", "8", "0", "0", "0">>, <<"4", "4", "F", "F", "F", "F">>, "BE", "Belgium">>,
    <<<<"4", "5", "0", "0", "0", "0">>, <<"4", "5", "7", "F", "F", "F">>, "BG", "Bulgaria">>,
    <<<<"4", "5", "8", "0", "0", "0">>, <<"4", "5", "F", "F", "F", "F">>, "DK", "Denmark">>,
    <<<<"4", "6", "0", "0", "0", "0">>, <<"4", "6", "7", "F", "F", "F">>, "FI", "Finland">>,
    <<<<"4", "6", "8", "0", "0", "0">>, <<"4", "6", "F", "F", "F", "F">>, "GR", "Greece">>,
    <<<<"4", "7", "0", "0", "0", "0">>, <<"4", "7", "7", "F", "F", "F">>, "HU", "Hungary">>,
    <<<<"4", "7", "8", "0", "0", "0">>, <<"4", "7", "F", "F", "F", "F">>, "NO", "Norway">>,
    <<<<"4", "8", "0", "0", "0", "0">>, <<"4", "8", "7", "F", "F", "F">>, "NL", "Netherlands">>,
    <<<<"4", "8", "8", "0", "0", "0">>, <<"4", "8", "F", "F", "F", "F">>, "PL", "Poland">>,
    <<<<"4", "9", "0", "0", "0", "0">>, <<"4", "9", "7", "F", "F", "F">>, "PT", "Portugal">>,
    <<<<"4", "9", "8", "0", "0", "0">>, <<"4", "9", "F", "F", "F", "F">>, "CZ", "Czech Republic">>,
    <<<<"4", "A", "0", "0", "0", "0">>, <<"4", "A", "7", "F", "F", "F">>, "RO", "Romania">>,
    <<<<"4", "A", "8", "0", "0", "0">>, <<"4", "A", "F", "F", "F", "F">>, "SE", "Sweden">>,
    <<<<"4", "B", "0", "0", "0", "0">>, <<"4", "B", "7", "F", "F", "F">>, "CH", "Switzerland">>,
    <<<<"4", "B", "8", "0", "0", "0">>, <<"4", "B", "F", "F", "F", "F">>, "TR", "Turkey">>,
    <<<<"4", "C", "0", "0", "0", "0">>, <<"4", "C", "7", "F", "F", "F">>, "YU", "Yugoslavia">>,
    <<<<"4", "C", "8", "0", "0", "0">>, <<"4", "C", "8", "3", "F", "F">>, "CY", "Cyprus">>,
    <<<<"4", "C", "A", "0", "0", "0">>, <<"4", "C", "A", "F", "F", "F">>, "IE", "Ireland">>,
    <<<<"4", "C", "C", "0", "0", "0">>, <<"4", "C", "C", "F", "F", "F">>, "IS", "Iceland">>,
    <<<<"4", "D", "0", "0", "0", "0">>, <<"4", "D", "0", "3", "F", "F">>, "LU", "Luxembourg">>,
    <<<<"4", "D", "2", "0", "0", "0">>, <<"4", "D", "2", "3", "F", "F">>, "MT", "Malta">>,
    <<<<"4", "D", "4", "0", "0", "0">>, <<"4", "D", "4", "3", "F", "F">>, "MC", "Monaco">>,
    <<<<"5", "0", "0", "0", "0", "0">>, <<"5", "0", "0", "3", "F", "F">>, "SM", "San Marino">>,
    <<<<"5", "0", "1", "0", "0", "0">>, <<"5", "0", "1", "3", "F", "F">>, "AL", "Albania">>,
    <<<<"5", "0", "1", "C", "0", "0">>, <<"5", "0", "1", "F", "F", "F">>, "HR", "Croatia">>,
    <<<<"5", "0", "2", "C", "0", "0">>, <<"5", "0", "2", "F", "F", "F">>, "LV", "Latvia">>,
    <<<<"5", "0", "3", "C", "0", "0">>, <<"5", "0", "3", "F", "F", "F">>, "LT", "Lithuania">>,
    <<<<"5", "0", "4", "C", "0", "0">>, <<"5", "0", "4", "F", "F", "F">>, "MD", "Moldova">>,
    <<<<"5", "0", "5", "C", "0", "0">>, <<"5", "0", "5", "F", "F", "F">>, "SK", "Slovakia">>,
    <<<<"5", "0", "6", "C", "0", "0">>, <<"5", "0", "6", "F", "F", "F">>, "SI", "Slovenia">>,
    <<<<"5", "0", "7", "C", "0", "0">>, <<"5", "0", "7", "F", "F", "F">>, "UZ", "Uzbekistan">>,
    <<<<"5", "0", "8", "0", "0", "0">>, <<"5", "0", "F", "F", "F", "F">>, "UA", "Ukraine">>,
    <<<<"5", "1", "0", "0", "0", "0">>, <<"5", "1", "0", "3", "F", "F">>, "BY", "Belarus">>,
    <<<<"5", "1", "1", "0", "0", "0">>, <<"5", "1", "1", "3", "F", "F">>, "EE", "Estonia">>,
    <<<<"5", "1", "2", "0", "0", "0">>, <<"5", "1", "2", "3", "F", "F">>, "MK", "North Macedonia">>,
    <<<<"5", "1", "3", "0", "0", "0">>, <<"5", "1", "3", "3", "F", "F">>, "BA", "Bosnia & Herzegovina">>,
    <<<<"5", "1", "4", "0", "0", "0">>, <<"5", "1", "4", "3", "F", "F">>, "GE", "Georgia">>,
    <<<<"5", "1", "5", "0", "0", "0">>, <<"5", "1", "5", "3", "F", "F">>, "TJ", "Tajikistan">>,
    <<<<"6", "0", "0", "0", "0", "0">>, <<"6", "0", "0", "3", "F", "F">>, "AM", "Armenia">>,
    <<<<"6", "0", "0", "8", "0", "0">>, <<"6", "0", "0", "B", "F", "F">>, "AZ", "Azerbaijan">>,
    <<<<"6", "0", "1", "0", "0", "0">>, <<"6", "0", "1", "3", "F", "F">>, "KG", "Kyrgyzstan">>,
    <<<<"6", "0", "1", "8", "0", "0">>, <<"6", "0", "1", "B", "F", "F">>, "TM", "Turkmenistan">>,
    <<<<"6", "8", "0", "0", "0", "0">>, <<"6", "8", "0", "3", "F", "F">>, "BT", "Bhutan">>,
    <<<<"6", "8", "1", "0", "0", "0">>, <<"6", "8", "1", "3", "F", "F">>, "FM", "Micronesia">>,
    <<<<"6", "8", "2", "0", "0", "0">>, <<"6", "8", "2", "3", "F", "F">>, "MN", "Mongolia">>,
    <<<<"6", "8", "3", "0", "0", "0">>, <<"6", "8", "3", "3", "F", "F">>, "KZ", "Kazakhstan">>,
    <<<<"6", "8", "4", "0", "0", "0">>, <<"6", "8", "4", "3", "F", "F">>, "PW", "Palau">>,
    <<<<"7", "0", "0", "0", "0", "0">>, <<"7", "0", "0", "F", "F", "F">>, "AF", "Afghanistan">>,
    <<<<"7", "0", "2", "0", "0", "0">>, <<"7", "0", "2", "F", "F", "F">>, "BD", "Bangladesh">>,
    <<<<"7", "0", "4", "0", "0", "0">>, <<"7", "0", "4", "F", "F", "F">>, "MM", "Myanmar">>,
    <<<<"7", "0", "6", "0", "0", "0">>, <<"7", "0", "6", "F", "F", "F">>, "KW", "Kuwait">>,
    <<<<"7", "0", "8", "0", "0", "0">>, <<"7", "0", "8", "F", "F", "F">>, "LA", "Laos">>,
    <<<<"7", "0", "A", "0", "0", "0">>, <<"7", "0", "A", "F", "F", "F">>, "NP", "Nepal">>,
    <<<<"7", "0", "C", "0", "0", "0">>, <<"7", "0", "C", "3", "F", "F">>, "OM", "Oman">>,
    <<<<"7", "0", "E", "0", "0", "0">>, <<"7", "0", "E", "F", "F", "F">>, "KH", "Cambodia">>,
    <<<<"7", "1", "0", "0", "0", "0">>, <<"7", "1", "7", "F", "F", "F">>, "SA", "Saudi Arabia">>,
    <<<<"7", "1", "8", "0", "0", "0">>, <<"7", "1", "F", "F", "F", "F">>, "KR", "South Korea">>,
    <<<<"7", "2", "0", "0", "0", "0">>, <<"7", "2", "7", "F", "F", "F">>, "KP", "North Korea">>,
    <<<<"7", "2", "8", "0", "0", "0">>, <<"7", "2", "F", "F", "F", "F">>, "IQ", "Iraq">>,
    <<<<"7", "3", "0", "0", "0", "0">>, <<"7", "3", "7", "F", "F", "F">>, "IR", "Iran">>,
    <<<<"7", "3", "8", "0", "0", "0">>, <<"7", "3", "F", "F", "F", "F">>, "IL", "Israel">>,
    <<<<"7", "4", "0", "0", "0", "0">>, <<"7", "4", "7", "F", "F", "F">>, "JO", "Jordan">>,
    <<<<"7", "4", "8", "0", "0", "0">>, <<"7", "4", "F", "F", "F", "F">>, "LB", "Lebanon">>,
    <<<<"7", "5", "0", "0", "0", "0">>, <<"7", "5", "7", "F", "F", "F">>, "MY", "Malaysia">>,
    <<<<"7", "5", "8", "0", "0", "0">>, <<"7", "5", "F", "F", "F", "F">>, "PH", "Philippines">>,
    <<<<"7", "6", "0", "0", "0", "0">>, <<"7", "6", "7", "F", "F", "F">>, "PK", "Pakistan">>,
    <<<<"7", "6", "8", "0", "0", "0">>, <<"7", "6", "F", "F", "F", "F">>, "SG", "Singapore">>,
    <<<<"7", "7", "0", "0", "0", "0">>, <<"7", "7", "7", "F", "F", "F">>, "LK", "Sri Lanka">>,
    <<<<"7", "7", "8", "0", "0", "0">>, <<"7", "7", "F", "F", "F", "F">>, "SY", "Syria">>,
    <<<<"7", "8", "0", "0", "0", "0">>, <<"7", "B", "F", "F", "F", "F">>, "CN", "China">>,
    <<<<"7", "C", "0", "0", "0", "0">>, <<"7", "F", "F", "F", "F", "F">>, "AU", "Australia">>,
    <<<<"8", "0", "0", "0", "0", "0">>, <<"8", "3", "F", "F", "F", "F">>, "IN", "India">>,
    <<<<"8", "4", "0", "0", "0", "0">>, <<"8", "7", "F", "F", "F", "F">>, "JP", "Japan">>,
    <<<<"8", "8", "0", "0", "0", "0">>, <<"8", "8", "7", "F", "F", "F">>, "TH", "Thailand">>,
    <<<<"8", "8", "8", "0", "0", "0">>, <<"8", "8", "F", "F", "F", "F">>, "VN", "Vietnam">>,
    <<<<"8", "9", "0", "0", "0", "0">>, <<"8", "9", "0", "F", "F", "F">>, "YE", "Yemen">>,
    <<<<"8", "9", "4", "0", "0", "0">>, <<"8", "9", "4", "F", "F", "F">>, "BH", "Bahrain">>,
    <<<<"8", "9", "5", "0", "0", "0">>, <<"8", "9", "5", "3", "F", "F">>, "BN", "Brunei">>,
    <<<<"8", "9", "6", "0", "0", "0">>, <<"8", "9", "6", "F", "F", "F">>, "AE", "United Arab Emirates">>,
    <<<<"8", "9", "7", "0", "0", "0">>, <<"8", "9", "7", "3", "F", "F">>, "SB", "Solomon Islands">>,
    <<<<"8", "9", "8", "0", "0", "0">>, <<"8", "9", "8", "F", "F", "F">>, "PG", "Papua New Guinea">>,
    <<<<"8", "9", "9", "0", "0", "0">>, <<"8", "9", "9", "3", "F", "F">>, "TW", "Taiwan">>,
    <<<<"8", "A", "0", "0", "0", "0">>, <<"8", "A", "7", "F", "F", "F">>, "ID", "Indonesia">>,
    <<<<"9", "0", "0", "0", "0", "0">>, <<"9", "0", "0", "3", "F", "F">>, "MH", "Marshall Islands">>,
    <<<<"9", "0", "1", "0", "0", "0">>, <<"9", "0", "1", "3", "F", "F">>, "CK", "Cook Islands">>,
    <<<<"9", "0", "2", "0", "0", "0">>, <<"9", "0", "2", "3", "F", "F">>, "WS", "Samoa">>,
    <<<<"A", "0", "0", "0", "0", "0">>, <<"A", "F", "F", "F", "F", "F">>, "US", "United States">>,
    <<<<"C", "0", "0", "0", "0", "0">>, <<"C", "3", "F", "F", "F", "F">>, "CA", "Canada">>,
    <<<<"C", "8", "0", "0", "0", "0">>, <<"C", "8", "7", "F", "F", "F">>, "NZ", "New Zealand">>,
    <<<<"C", "8", "8", "0", "0", "0">>, <<"C", "8", "8", "F", "F", "F">>, "FJ", "Fiji">>,
    <<<<"C", "8", "A", "0", "0", "0">>, <<"C", "8", "A", "3", "F", "F">>, "NR", "Nauru">>,
    <<<<"C", "8", "C", "0", "0", "0">>, <<"C", "8", "C", "3", "F", "F">>, "LC", "Saint Lucia">>,
    <<<<"C", "8", "D", "0", "0", "0">>, <<"C", "8", "D", "3", "F", "F">>, "TO", "Tonga">>,
    <<<<"C", "8", "E", "0", "0", "0">>, <<"C", "8", "E", "3", "F", "F">>, "KI", "Kiribati">>,
    <<<<"C", "9", "0", "0", "0", "0">>, <<"C", "9", "0", "3", "F", "F">>, "VU", "Vanuatu">>,
    <<<<"E", "0", "0", "0", "0", "0">>, <<"E", "3", "F", "F", "F", "F">>, "AR", "Argentina">>,
    <<<<"E", "4", "0", "0", "0", "0">>, <<"E", "7", "F", "F", "F", "F">>, "BR", "Brazil">>,
    <<<<"E", "8", "0", "0", "0", "0">>, <<"E", "8", "0", "F", "F", "F">>, "CL", "Chile">>,
    <<<<"E", "8", "4", "0", "0", "0">>, <<"E", "8", "4", "F", "F", "F">>, "EC", "Ecuador">>,
    <<<<"E", "8", "8", "0", "0", "0">>, <<"E", "8", "8", "F", "F", "F">>, "PY", "Paraguay">>,
    <<<<"E", "8", "C", "0", "0", "0">>, <<"E", "8", "C", "F", "F", "F">>, "PE", "Peru">>,
    <<<<"E", "9", "0", "0", "0", "0">>, <<"E", "9", "0", "F", "F", "F">>, "UY", "Uruguay">>,
    <<<<"E", "9", "4", "0", "0", "0">>, <<"E", "9", "4", "F", "F", "F">>, "BO", "Bolivia">>,
    <<<<"F", "0", "0", "0", "0", "0">>, <<"F", "0", "7", "F", "F", "F">>, "ICAO", "ICAO">>,
    <<<<"F", "0", "9", "0", "0", "0">>, <<"F", "0", "9", "3", "F", "F">>, "ICAO", "ICAO">>
  >>

\* the length an address is padded and cut to (lines 520-525)
AddressLength == 6

HexDigits ==
  <<"0", "1", "2", "3", "4", "5", "6", "7", "8", "9", "A", "B", "C", "D", "E", "F">>
IsHexDigit(c) == \E v \in 1..Len(HexDigits) : HexDigits[v] = c
HexValue(c) == (CHOOSE v \in 1..Len(HexDigits) : HexDigits[v] = c) - 1

\* str.upper() on the letters an address can hold
UpperChar(c) ==
  CASE c = "a" -> "A" [] c = "b" -> "B" [] c = "c" -> "C" [] c = "d" -> "D"
    [] c = "e" -> "E" [] c = "f" -> "F" [] c = "g" -> "G" [] OTHER -> c
upper(s) == [k \in 1..Len(s) |-> UpperChar(s[k])]

\* str.replace(" ", "")
NotSpace(c) == ~IsSpace(c)
RemoveSpaces(s) == SelectSeq(s, NotSpace)

\* str.ljust(width, "0")
RECURSIVE ljust(_, _)
ljust(s, width) == IF Len(s) < width THEN ljust(Append(s, "0"), width) ELSE s

\* int(text, 16) of hex digits; ValueError is None
RECURSIVE HexToInt(_)
HexToInt(s) == IF s = <<>> THEN 0 ELSE HexToInt(SubSeq(s, 1, Len(s) - 1)) * 16 + HexValue(s[Len(s)])
ParseHex(s) ==
  IF s # <<>> /\ \A k \in 1..Len(s) : IsHexDigit(s[k]) THEN Some(HexToInt(s)) ELSE None

\* lines 517-525: normalise, pad, cut to six characters, convert
AddressOf(icao24) ==
  LET padded == ljust(RemoveSpaces(upper(strip(icao24))), AddressLength)
  IN ParseHex(SubSeq(padded, 1, AddressLength))

\* lines 528-536: the loop returns at the first range, in the order of the
\* list, that contains the address
Contains(k, icao_int) ==
  /\ HexToInt(ICAO24_RANGES[k][1]) <= icao_int
  /\ icao_int <= HexToInt(ICAO24_RANGES[k][2])

FirstRange(icao_int) ==
  LET hits == {k \in 1..Len(ICAO24_RANGES) : Contains(k, icao_int)}
  IN IF hits = {} THEN None
     ELSE Some(ICAO24_RANGES[CHOOSE k \in hits : \A j \in hits : k <= j][4])

get_country_from_icao24(icao24) ==
  IF AddressOf(icao24) = None THEN None
  ELSE FirstRange(Val(AddressOf(icao24)))

(***************************************************************************)
(* HybridAPI._merge_osky_states                                            *)
(***************************************************************************)
\* A batch is a dictionary id -> [obj, live]: obj is the state's content and
\* live tells that the state is the ingestor's current object for the id
\* (so that it is the very object the store holds when the record is shared).

\* lines 202-209 with ">=" for the ">" of line 205
MergeOne_AtOrAfter(table, id, st) ==
  IF id \in DOMAIN table
  THEN LET current == table[id]
           sameObject == st.live /\ current.shared
       IN IF ~sameObject /\ st.obj.last_contact >= current.opensky.last_contact
          THEN [current EXCEPT !.opensky = merge(current.opensky, st.obj)]
          ELSE current
  ELSE NewAircraft(st.obj, st.live)

\* lines 202-209 for one state of the batch
MergeOne(table, id, st) ==
  IF id \in DOMAIN table
  THEN LET current == table[id]
           sameObject == st.live /\ current.shared
       IN IF ~sameObject /\ st.obj.last_contact > current.opensky.last_contact
          THEN [current EXCEPT !.opensky = merge(current.opensky, st.obj)]
          ELSE current
  ELSE NewAircraft(st.obj, st.live)

\* lines 211-217: "Remove any stale aircraft"
Stale(table, current_icao24s) ==
  {i \in DOMAIN table \ current_icao24s :
     now - table[i].opensky.last_contact > cfg.aircraft_expire_seconds}

\* lines 197-217: the table after the batch
MergedTable(table, batch) ==
  LET merged == [i \in DOMAIN table \cup DOMAIN batch |->
                   IF i \in DOMAIN batch THEN MergeOne(table, i, batch[i])
                   ELSE table[i]]
  IN Del(merged, Stale(merged, DOMAIN batch))

\* HybridAPI._notify_observers (lines 410-417), called with the lock held by
\* thread t: an observer that calls request_enrich synchronously waits for
\* the lock its own thread holds (line 124)
ObserverReenters(table) ==
  /\ cfg.flightaware_api_key
  /\ "enrich" \in SeqToSet(on_aircraft_updated)
  /\ DOMAIN table # {}

\* position of the first observer of the list that is `callback`, 0 if none
FirstIndex(observers, callback) ==
  IF callback \in SeqToSet(observers)
  THEN CHOOSE k \in 1..Len(observers) :
         /\ observers[k] = callback
         /\ \A j \in 1..(k - 1) : observers[j] # callback
  ELSE 0

\* line 413 without the try/except of lines 414-417: the loop ends at the
\* first observer that raises
Invoked_NoCatch(observers, table) ==
  IF "raise" \in SeqToSet(observers)
  THEN SubSeq(observers, 1, FirstIndex(observers, "raise"))
  ELSE observers

\* lines 413-417: the observers called, in order; one that raises is caught
\* and the loop goes on, one that waits for the lock never returns
Invoked(observers, table) ==
  IF ObserverReenters(table)
  THEN SubSeq(observers, 1, FirstIndex(observers, "enrich"))
  ELSE observers

notify_observers(t, table) ==
  /\ IF ObserverReenters(table)
     THEN lock' = t /\ blocked' = blocked \cup {t}
     ELSE lock' = "free" /\ blocked' = blocked
  /\ notified' = Invoked(on_aircraft_updated, table)
  /\ unannounced' = {}

\* the whole method, run by thread t; merge() on a shared record changes the
\* ingestor's object too
merge_osky_states(t, batch) ==
  LET table == MergedTable(current_aircraft, batch)
  IN /\ lock = "free"
     /\ current_aircraft' = table
     /\ aircraft' = [i \in DOMAIN aircraft |->
          IF i \in DOMAIN table /\ i \in DOMAIN current_aircraft
             /\ current_aircraft[i].shared
          THEN table[i].opensky ELSE aircraft[i]]
     /\ notify_observers(t, table)
     \* a record deleted while the client holds it is no longer the table's
     /\ enr_aircraft' =
          IF enr_aircraft.live /\ fa_icao24 \notin DOMAIN table
          THEN [live |-> FALSE,
                callsign |-> current_aircraft[fa_icao24].opensky.callsign]
          ELSE enr_aircraft
     /\ handed' = handed \cap DOMAIN table
     \* a record deleted from the table stays in the lists that hold it
     /\ snapshot' =
          IF snapshot = None THEN None
          ELSE Some([Val(snapshot) EXCEPT !.refs =
                 [i \in DOMAIN @ |->
                    IF @[i] = None /\ i \notin DOMAIN table
                    THEN Some(current_aircraft[i]) ELSE @[i]]])
     /\ twice' = twice \cap DOMAIN table
     /\ UNCHANGED enrichVars

(***************************************************************************)
(* Threads                                                                 *)
(***************************************************************************)
\* HybridAPI.start (lines 84-106) and DumpSlurp.start (lines 283-292) have
\* run: the flags are set and every configured loop is at its first check
StartedInit ==
  /\ running = TRUE
  /\ dump_running = cfg.dump1090
  /\ inflight = {}
  /\ exited = {}
  /\ po_pc = "poll"
  /\ notified = <<>>
  /\ unannounced = {}

\* the flag the loop of worker w tests: self._running in DumpSlurp (lines 308,
\* 319, 328), self.running in HybridAPI (lines 134, 224, 244)
FlagOf(w) == IF w \in {"reader", "callback"} THEN dump_running ELSE running

\* a loop that tests nothing: "while True"
Active_IgnoresFlag(w) == w \notin exited

\* worker w is inside its loop: its last check found the flag set
Active(w) == w \notin exited /\ (FlagOf(w) \/ w \in inflight)

\* worker w is back at the check of its loop
EndIteration(w) ==
  /\ inflight' = inflight \ {w}
  /\ UNCHANGED <<running, dump_running, exited>>

\* the wall clock advances
Tick ==
  /\ now + ClockStep <= MaxNow
  /\ now' = now + ClockStep
  /\ UNCHANGED <<cfg, on_aircraft_updated, snapshot, runVars, po_pc, notified, unannounced, pureVars, dumpVars, storeVars, enrichVars, hookVars>>

\* DumpSlurp._run, lines 321-325: connect
DumpConnect(ok) ==
  /\ cfg.dump1090 /\ rd_pc = "connecting" /\ Active("reader")
  /\ rd_pc' = IF ok THEN "connected"
            ELSE IF dump_running THEN "backoff" ELSE "connecting"
  /\ EndIteration("reader")
  /\ UNCHANGED <<now, cfg, on_aircraft_updated, snapshot, po_pc, notified, unannounced, pureVars, aircraft, cb_pc, cb_list, storeVars, enrichVars,
                 hookVars>>

\* lines 330-342: recv() returns data holding the complete line m
DumpRecv(m) ==
  /\ rd_pc \in {"connected", "lines"} /\ Active("reader")
  /\ process_message(m)
  /\ rd_pc' = "lines"
  /\ UNCHANGED <<now, cfg, on_aircraft_updated, snapshot, runVars, po_pc, notified, unannounced, pureVars, cb_pc, cb_list, lock, blocked, enrichVars, hookVars>>

\* lines 345 and 349 without the clause of line 347: the timeout is taken
\* by `except Exception` (lines 351-353), which leaves the read loop
DumpExpire_Disconnects ==
  /\ rd_pc \in {"connected", "lines"} /\ Active("reader")
  /\ expire_old_aircraft
  /\ rd_pc' = IF rd_pc = "lines" THEN "connected"
            ELSE IF dump_running THEN "backoff" ELSE "connecting"
  /\ EndIteration("reader")
  /\ UNCHANGED <<now, cfg, on_aircraft_updated, snapshot, po_pc, notified,
                 unannounced, pureVars, cb_pc, lock, blocked, enrichVars,
                 hookVars>>

\* lines 345 and 349: after the lines of a chunk, or on a read timeout
DumpExpire ==
  /\ rd_pc \in {"connected", "lines"} /\ Active("reader")
  /\ expire_old_aircraft
  /\ rd_pc' = "connected"
  /\ EndIteration("reader")
  /\ UNCHANGED <<now, cfg, on_aircraft_updated, snapshot, po_pc, notified, unannounced, pureVars, cb_pc, lock, blocked, enrichVars, hookVars>>

\* lines 331-333 and 351-355: zero-byte read or read error
DumpDisconnect ==
  /\ rd_pc = "connected" /\ Active("reader")
  /\ rd_pc' = IF dump_running THEN "backoff" ELSE "connecting"
  /\ EndIteration("reader")
  /\ UNCHANGED <<now, cfg, on_aircraft_updated, snapshot, po_pc, notified, unannounced, pureVars, aircraft, cb_pc, cb_list, storeVars, enrichVars,
                 hookVars>>

\* lines 360-362: the 30 s sleep is over
DumpRetry ==
  /\ rd_pc = "backoff" /\ Active("reader")
  /\ rd_pc' = "connecting"
  /\ EndIteration("reader")
  /\ UNCHANGED <<now, cfg, on_aircraft_updated, snapshot, po_pc, notified, unannounced, pureVars, aircraft, cb_pc, cb_list, storeVars, enrichVars,
                 hookVars>>

\* DumpSlurp._callback_loop, line 311: get_aircraft() copies the list of
\* objects under DumpSlurp._lock
CallbackTake ==
  /\ cfg.dump1090 /\ cb_pc = "sleep" /\ Active("callback")
  /\ cb_list' = [i \in DOMAIN aircraft |-> None]
  /\ cb_pc' = "call"
  /\ UNCHANGED <<now, cfg, on_aircraft_updated, snapshot, runVars, po_pc, notified, unannounced, pureVars, aircraft, rd_pc, storeVars, enrichVars, hookVars>>

\* line 313: state_callback = HybridAPI._process_dump1090_states
CallbackBatch ==
  [i \in DOMAIN cb_list |->
     IF cb_list[i] = None THEN [obj |-> aircraft[i], live |-> TRUE]
     ELSE [obj |-> Val(cb_list[i]), live |-> FALSE]]

process_dump1090_states ==
  /\ cb_pc = "call" /\ "callback" \notin blocked
  /\ merge_osky_states("callback", CallbackBatch)
  /\ cb_pc' = "sleep"
  /\ cb_list' = EmptyDict
  /\ EndIteration("callback")
  /\ UNCHANGED <<now, cfg, on_aircraft_updated, pureVars, rd_pc, po_pc>>

\* HybridAPI.get_current_aircraft (lines 428-431), and the list built for the
\* observers (line 412): list(self.current_aircraft.values()), a new list of
\* the Aircraft objects of the table. `taken` is what the objects held when
\* the list was built; refs[i] is None while the object is the table's
\* record, and holds the object once the table has dropped it
get_current_aircraft ==
  /\ snapshot = None /\ lock = "free"
  /\ snapshot' = Some([taken |-> current_aircraft,
                       refs |-> [i \in DOMAIN current_aircraft |-> None]])
  /\ UNCHANGED <<now, cfg, on_aircraft_updated, pureVars, dumpVars, storeVars,
                 enrichVars, hookVars, runVars, po_pc, notified, unannounced>>

\* the Aircraft object the list holds for id i, as it is now
SeenThrough(i) ==
  IF Val(snapshot).refs[i] = None THEN current_aircraft[i]
  ELSE Val(Val(snapshot).refs[i])

\* HybridAPI.add_observer (lines 419-421); "store" is an observer that keeps
\* the list (main.on_api_update), "enrich" one that calls request_enrich for
\* the aircraft of the list before it returns, "raise" one that raises an
\* Exception, "log" one that prints the list (on_aircraft_update, line 440)
add_observer(callback) ==
  /\ callback \notin SeqToSet(on_aircraft_updated)  \* registered once
  /\ on_aircraft_updated' = Append(on_aircraft_updated, callback)
  /\ UNCHANGED <<now, cfg, snapshot, runVars, po_pc, notified, unannounced, pureVars, dumpVars, storeVars,
                 enrichVars, hookVars>>

\* HybridAPI._opensky_poll_loop, lines 139-142: one successful poll
process_opensky_states(states) ==
  /\ cfg.opensky /\ "poller" \notin blocked
  /\ po_pc = "poll" /\ Active("poller")
  /\ merge_osky_states("poller",
        [i \in DOMAIN states |-> [obj |-> states[i], live |-> FALSE]])
  /\ UNCHANGED <<now, cfg, on_aircraft_updated, pureVars, rd_pc, cb_pc, cb_list,
                 po_pc>>
  /\ EndIteration("poller")

\* _opensky_poll_loop, lines 147-149: get_states or the merge raises, the
\* except clause prints and the thread sleeps 10 s
PollError ==
  /\ cfg.opensky /\ "poller" \notin blocked
  /\ po_pc = "poll" /\ Active("poller")
  /\ po_pc' = "backoff"
  /\ UNCHANGED <<now, cfg, on_aircraft_updated, snapshot, runVars, notified, unannounced,
                 pureVars, dumpVars, storeVars, enrichVars, hookVars>>

\* line 149 with "raise" for the sleep: the exception leaves the loop
PollRetry_Uncaught ==
  /\ po_pc = "backoff" /\ Active("poller")
  /\ exited' = exited \cup {"poller"}
  /\ inflight' = inflight \ {"poller"}
  /\ UNCHANGED <<now, cfg, on_aircraft_updated, snapshot, running,
                 dump_running, po_pc, notified, unannounced, pureVars, dumpVars, storeVars,
                 enrichVars, hookVars>>

\* line 149: the 10 s sleep is over, back to the check of line 134
PollRetry ==
  /\ po_pc = "backoff" /\ Active("poller")
  /\ po_pc' = "poll"
  /\ EndIteration("poller")
  /\ UNCHANGED <<now, cfg, on_aircraft_updated, snapshot, notified, unannounced, pureVars,
                 dumpVars, storeVars, enrichVars, hookVars>>

\* DumpSlurp._callback_loop, lines 312-315: the state callback raises, the
\* except clause prints and the loop goes back to its check
CallbackError ==
  /\ cb_pc = "call" /\ "callback" \notin blocked
  /\ cb_pc' = "sleep"
  /\ cb_list' = EmptyDict
  /\ EndIteration("callback")
  /\ UNCHANGED <<now, cfg, on_aircraft_updated, snapshot, po_pc, notified, unannounced,
                 pureVars, aircraft, rd_pc, storeVars, enrichVars, hookVars>>

(***************************************************************************)
(* HybridAPI.stop, DumpSlurp.stop and the loop checks                      *)
(***************************************************************************)
\* the threads start() has created (Hybrid.py lines 92-106, DumpSlurp.py
\* lines 288-292)
Workers ==
  (IF cfg.dump1090 THEN {"reader", "callback"} ELSE {})
    \cup (IF cfg.opensky THEN {"poller"} ELSE {})
    \cup (IF cfg.flightaware_api_key THEN {"drain"} ELSE {})

\* workers whose position shows that they are inside an iteration
InIteration ==
  (IF rd_pc \in {"lines", "backoff"} THEN {"reader"} ELSE {})
    \cup (IF cb_pc = "call" THEN {"callback"} ELSE {})
    \cup (IF po_pc = "backoff" THEN {"poller"} ELSE {})

\* HybridAPI.stop (lines 108-120) with DumpSlurp.stop (lines 293-299): both
\* flags are cleared. A worker of the feeds is at its check or somewhere in
\* an iteration that began before; the drain worker's position tells which
stop ==
  /\ running
  /\ running' = FALSE
  /\ dump_running' = FALSE
  /\ \E S \in SUBSET ((Workers \ exited) \ {"drain"}) :
       /\ (InIteration \cap Workers) \ exited \subseteq S
       /\ inflight' = S
  /\ UNCHANGED <<now, cfg, on_aircraft_updated, snapshot, exited, po_pc,
                 notified, unannounced, pureVars, dumpVars, storeVars, enrichVars,
                 hookVars>>

\* "while self.running" (Hybrid.py lines 134, 224) and "while self._running"
\* (DumpSlurp.py lines 308, 319, 328) find the flag cleared: the loop ends
ObserveStop(w) ==
  /\ w \in Workers \ exited
  /\ ~FlagOf(w) /\ w \notin inflight
  /\ w = "drain" => fa_pc = "pass"
  /\ exited' = exited \cup {w}
  /\ UNCHANGED <<now, cfg, on_aircraft_updated, snapshot, running,
                 dump_running, inflight, po_pc, notified, unannounced, pureVars, dumpVars,
                 storeVars, enrichVars, hookVars>>

\* _flightaware_enrich_loop, lines 244-245: "if not self.running: break"
DrainBreak ==
  /\ fa_pc = "loop" /\ unenriched # <<>> /\ ~running
  /\ fa_pc' = "pass"
  /\ unenriched' = <<>>
  /\ UNCHANGED <<now, cfg, on_aircraft_updated, snapshot, runVars, po_pc,
                 notified, unannounced, pureVars, dumpVars, storeVars, fa_queue,
                 fa_request_times, fa_cache, fa_icao24, enr_data, rq_pc,
                 rq_icao24, http_log, hookVars>>

(***************************************************************************)
(* HybridAPI.request_enrich                                                *)
(***************************************************************************)
\* request_enrich without its "try: self.fa_queue.remove(icao24)"
RequestEnrichBegin_NoRemove(icao24) ==
  /\ cfg.flightaware_api_key /\ rq_pc = "idle"
  /\ lock = "free"
  /\ lock' = "consumer"
  /\ fa_queue' = fa_queue
  /\ rq_icao24' = icao24
  /\ rq_pc' = "append"
  /\ UNCHANGED <<now, cfg, on_aircraft_updated, snapshot, runVars, po_pc, notified, unannounced, pureVars, dumpVars,
                 current_aircraft, blocked, fa_request_times, fa_cache, fa_pc,
                 unenriched, fa_icao24, enr_data, http_log, hookVars>>

\* lines 123-129: take the lock, remove the id if it is queued
RequestEnrichBegin(icao24) ==
  /\ cfg.flightaware_api_key /\ rq_pc = "idle"
  /\ lock = "free"
  /\ lock' = "consumer"
  /\ fa_queue' = list_remove(fa_queue, icao24)
  /\ rq_icao24' = icao24
  /\ rq_pc' = "append"
  /\ UNCHANGED <<now, cfg, on_aircraft_updated, snapshot, runVars, po_pc, notified, unannounced, pureVars, dumpVars, current_aircraft, blocked,
                 fa_request_times, fa_cache, fa_pc, unenriched, fa_icao24,
                 enr_data, http_log, hookVars>>

\* line 130: append it and release the lock
RequestEnrichEnd ==
  /\ rq_pc = "append"
  /\ fa_queue' = Append(fa_queue, rq_icao24)
  /\ lock' = "free"
  /\ rq_pc' = "idle"
  /\ rq_icao24' = <<>>
  /\ UNCHANGED <<now, cfg, on_aircraft_updated, snapshot, runVars, po_pc, notified, unannounced, pureVars, dumpVars, current_aircraft, blocked,
                 fa_request_times, fa_cache, fa_pc, unenriched, fa_icao24,
                 enr_data, http_log, hookVars>>

(***************************************************************************)
(* HybridAPI._flightaware_enrich_loop                                      *)
(***************************************************************************)
InTable(icao24) == icao24 \in DOMAIN current_aircraft

\* lines 236-240: the filter of the eligible ids
Eligible(icao24) ==
  /\ icao24 \in DOMAIN current_aircraft
  /\ current_aircraft[icao24].flightaware = None
  /\ Truthy(current_aircraft[icao24].opensky.callsign)

\* lines 226-241, under the lock: prune the queue, list the eligible ids
DrainPass ==
  /\ cfg.flightaware_api_key /\ fa_pc = "pass" /\ "drain" \notin blocked
  /\ Active("drain")
  /\ lock = "free"
  /\ fa_queue' = SelectSeq(fa_queue, InTable)
  /\ unenriched' = SelectSeq(SelectSeq(fa_queue, InTable), Eligible)
  /\ fa_pc' = "loop"
  /\ UNCHANGED <<now, cfg, on_aircraft_updated, snapshot, runVars, po_pc, notified, unannounced, pureVars, dumpVars, storeVars, fa_request_times, fa_cache,
                 fa_icao24, enr_data, rq_pc, rq_icao24, http_log, hookVars>>

\* line 259: the list is exhausted, sleep and start the next pass
DrainIdle ==
  /\ fa_pc = "loop" /\ unenriched = <<>>
  /\ fa_pc' = "pass"
  /\ UNCHANGED <<now, cfg, on_aircraft_updated, snapshot, runVars, po_pc, notified, unannounced, pureVars, dumpVars, storeVars, fa_queue, fa_request_times,
                 fa_cache, unenriched, fa_icao24, enr_data, rq_pc, rq_icao24,
                 http_log, hookVars>>

\* HybridAPI._can_make_flightaware_request, line 285: the window after pruning
RecentRequest(t) == now - t < RateWindowSeconds
PrunedWindow == SelectSeq(fa_request_times, RecentRequest)

\* line 287 with "<=" for "<"
SlotFree_OffByOne ==
  Len(PrunedWindow) <= cfg.max_flightaware_requests_per_minute

\* line 287
SlotFree == Len(PrunedWindow) < cfg.max_flightaware_requests_per_minute

\* lines 244-251 with the removal of line 255 moved before the rate check
DrainRateCheck_DropsRefused ==
  /\ fa_pc = "loop" /\ unenriched # <<>> /\ running
  /\ fa_icao24' = Head(unenriched)
  /\ unenriched' = Tail(unenriched)
  /\ fa_queue' = list_remove(fa_queue, Head(unenriched))
  /\ fa_request_times' = IF SlotFree THEN Append(PrunedWindow, now)
                         ELSE PrunedWindow
  /\ fa_pc' = IF SlotFree THEN "dequeue" ELSE "loop"
  /\ UNCHANGED <<now, cfg, on_aircraft_updated, snapshot, runVars, po_pc,
                 notified, unannounced, pureVars, dumpVars, storeVars,
                 fa_cache, enr_data, rq_pc, rq_icao24, http_log, hookVars>>

\* lines 244-251 without the append of line 288: a slot is granted and no
\* timestamp recorded
DrainRateCheck_NoStamp ==
  /\ fa_pc = "loop" /\ unenriched # <<>> /\ running
  /\ fa_icao24' = Head(unenriched)
  /\ unenriched' = Tail(unenriched)
  /\ fa_request_times' = PrunedWindow
  /\ fa_pc' = IF SlotFree THEN "dequeue" ELSE "loop"
  /\ UNCHANGED <<now, cfg, on_aircraft_updated, snapshot, runVars, po_pc,
                 notified, unannounced, pureVars, dumpVars, storeVars,
                 fa_queue, fa_cache, enr_data, rq_pc, rq_icao24, http_log,
                 hookVars>>

\* lines 244-251: next id of the list and the rate limit check; a refused id
\* is skipped (continue) and stays in the queue
DrainRateCheck ==
  /\ fa_pc = "loop" /\ unenriched # <<>> /\ running
  /\ fa_icao24' = Head(unenriched)
  /\ unenriched' = Tail(unenriched)
  /\ fa_request_times' = IF SlotFree THEN Append(PrunedWindow, now)
                         ELSE PrunedWindow
  /\ fa_pc' = IF SlotFree THEN "dequeue" ELSE "loop"
  /\ UNCHANGED <<now, cfg, on_aircraft_updated, snapshot, runVars, po_pc, notified, unannounced, pureVars, dumpVars, storeVars, fa_queue, fa_cache, enr_data,
                 rq_pc, rq_icao24, http_log, hookVars>>

\* line 254, without the lock: "if icao24 in self.fa_queue"
DrainDequeueCheck ==
  /\ fa_pc = "dequeue"
  /\ fa_pc' = IF fa_icao24 \in SeqToSet(fa_queue) THEN "remove" ELSE "enrich"
  /\ UNCHANGED <<now, cfg, on_aircraft_updated, snapshot, runVars, po_pc, notified, unannounced, pureVars, dumpVars, storeVars, fa_queue, fa_request_times,
                 fa_cache, unenriched, fa_icao24, enr_data, rq_pc, rq_icao24,
                 http_log, hookVars>>

\* line 255, without the lock: list.remove raises ValueError when a
\* request_enrich has taken the id out in between; lines 261-263 then end
\* the pass
DrainDequeueRemove ==
  /\ fa_pc = "remove"
  /\ IF fa_icao24 \in SeqToSet(fa_queue)
     THEN /\ fa_queue' = list_remove(fa_queue, fa_icao24)
          /\ fa_pc' = "enrich"
          /\ UNCHANGED <<unenriched, fa_icao24>>
     ELSE /\ fa_pc' = "pass"
          /\ unenriched' = <<>>
          /\ fa_icao24' = <<>>
          /\ UNCHANGED fa_queue
  /\ UNCHANGED <<now, cfg, on_aircraft_updated, snapshot, runVars, po_pc, notified, unannounced, pureVars, dumpVars, storeVars, fa_request_times, fa_cache,
                 enr_data, rq_pc, rq_icao24, http_log, hookVars>>

(***************************************************************************)
(* HybridAPI._enrich_with_flightaware                                      *)
(***************************************************************************)
\* FlightAwareData(): every field None
EmptyFlightAwareData ==
  [airline |-> None, flight_number |-> None, aircraft_type |-> None,
   origin_airport |-> None, destination_airport |-> None,
   estimated_arrival_time |-> None, departure_time |-> None]

\* a leg without any key: the {} appended at line 367
EmptyLeg ==
  [status |-> None, origin |-> None, destination |-> None,
   aircraft_type |-> None, operator_iata |-> None, flight_number |-> None,
   estimated_arrival |-> None, actual_departure |-> None]

\* "x.get(key, default) or default" with default ''
OrEmpty(x) == IF x = None THEN "" ELSE Val(x)

\* _parse_fa_components_from_flight(x, ''), joined with "." at line 307: the
\* three components (codes contain no ".")
Components(leg) ==
  <<OrEmpty(leg.origin), OrEmpty(leg.destination), OrEmpty(leg.aircraft_type)>>

\* _parse_fa_components_from_flight(x): "... or default" with default None
OrNone(x) == IF x = None \/ x = Some("") THEN None ELSE x

\* _can_cache_flightaware_request without the comparison of line 309
can_cache_flightaware_request_AnyLegs(flights) == Len(flights) # 0

\* _can_cache_flightaware_request comparing the status of the legs as well
can_cache_flightaware_request_WithStatus(flights) ==
  IF Len(flights) = 0 THEN FALSE
  ELSE \A k \in 1..Len(flights) :
         /\ Components(flights[k]) = Components(flights[1])
         /\ flights[k].status = flights[1].status

\* HybridAPI._can_cache_flightaware_request
can_cache_flightaware_request(flights) ==
  IF Len(flights) = 0 THEN FALSE
  ELSE \A k \in 1..Len(flights) : Components(flights[k]) = Components(flights[1])

\* the statuses that contain "En Route"; a leg without status counts as " "
EnRouteStatuses == {"En Route / On Time", "En Route / Delayed"}
IsEnRoute(leg) == leg.status # None /\ Val(leg.status) \in EnRouteStatuses

\* lines 367-369: next(filter(...), flights[0]) after flights.append({})
RECURSIVE FirstEnRoute(_, _)
FirstEnRoute(flights, default) ==
  IF flights = <<>> THEN default
  ELSE IF IsEnRoute(Head(flights)) THEN Head(flights)
  ELSE FirstEnRoute(Tail(flights), default)

\* line 368 with flights[0] alone: the first leg whatever its status
SelectFlight_FirstLeg(flights) == Append(flights, EmptyLeg)[1]

SelectFlight(flights) ==
  LET all == Append(flights, EmptyLeg) IN FirstEnRoute(all, all[1])

\* _parse_fa_datetime: None for a missing or empty string
parse_fa_datetime(x) == IF x = None \/ x = Some("") THEN None ELSE x

\* lines 371-385
MakeFlightAwareData(flight) ==
  [airline |-> flight.operator_iata,
   flight_number |-> flight.flight_number,
   aircraft_type |-> OrNone(flight.aircraft_type),
   origin_airport |-> OrNone(flight.origin),
   destination_airport |-> OrNone(flight.destination),
   estimated_arrival_time |-> parse_fa_datetime(flight.estimated_arrival),
   departure_time |-> parse_fa_datetime(flight.actual_departure)]

\* the wraparound branch with "start >= now.hour" for "start > now.hour"
CanProcess_Inclusive(start, end, hour) ==
  IF start = None \/ end = None THEN TRUE
  ELSE IF Val(start) > Val(end)
       THEN Val(start) >= hour /\ hour >= Val(end)
       ELSE Val(start) <= hour \/ hour < Val(end)

\* HybridAPI._can_process_flightaware_request for the local hour
CanProcess(start, end, hour) ==
  IF start = None \/ end = None THEN TRUE
  ELSE IF Val(start) > Val(end)
       THEN Val(start) > hour /\ hour >= Val(end)
       ELSE Val(start) <= hour \/ hour < Val(end)

can_process_flightaware_request(hour) ==
  CanProcess(cfg.quiet_start, cfg.quiet_end, hour)

\* lines 314-316: the client is invoked and reads the record without the lock
EnrichRead ==
  /\ fa_pc = "enrich"
  /\ IF fa_icao24 \in DOMAIN current_aircraft
     THEN /\ handed' = handed \cup {fa_icao24}
          /\ twice' = IF fa_icao24 \in handed THEN twice \cup {fa_icao24}
                      ELSE twice
     ELSE UNCHANGED <<handed, twice>>
  /\ IF /\ fa_icao24 \in DOMAIN current_aircraft
        /\ Truthy(current_aircraft[fa_icao24].opensky.callsign)
     THEN /\ enr_aircraft' = [live |-> TRUE, callsign |-> None]
          /\ fa_pc' = "mark"
     ELSE /\ enr_aircraft' = NoAircraft
          /\ fa_pc' = "loop"
  /\ UNCHANGED <<now, cfg, on_aircraft_updated, snapshot, runVars, po_pc, notified, unannounced, pureVars, dumpVars, storeVars, fa_queue, fa_request_times,
                 fa_cache, unenriched, fa_icao24, enr_data, rq_pc, rq_icao24,
                 http_log>>

\* lines 325-326 without the except clause of line 391: the KeyError of a
\* record deleted since line 314 reaches the except clause of the drain loop
\* (lines 261-263), which ends the pass
EnrichMark_Uncaught ==
  /\ fa_pc = "mark" /\ lock = "free"
  /\ IF fa_icao24 \in DOMAIN current_aircraft
     THEN /\ current_aircraft' =
               [current_aircraft EXCEPT
                  ![fa_icao24].flightaware = Some(EmptyFlightAwareData)]
          \* the lock is released at line 326 with no _notify_observers()
          /\ unannounced' = unannounced \cup {fa_icao24}
          /\ fa_pc' = "fetch"
          /\ UNCHANGED <<enr_aircraft, unenriched>>
     ELSE /\ fa_pc' = "pass"
          /\ unenriched' = <<>>
          /\ enr_aircraft' = NoAircraft
          /\ UNCHANGED <<current_aircraft, unannounced>>
  /\ UNCHANGED <<now, cfg, on_aircraft_updated, snapshot, runVars, po_pc, notified, pureVars, dumpVars, lock, blocked, fa_queue, fa_request_times,
                 fa_cache, fa_icao24, enr_data, rq_pc, rq_icao24,
                 http_log, handed, twice>>

\* lines 325-326: "any attempt marks the aircraft as loaded"; the KeyError of
\* a record deleted since line 314 is caught at line 391
EnrichMark ==
  /\ fa_pc = "mark" /\ lock = "free"
  /\ IF fa_icao24 \in DOMAIN current_aircraft
     THEN /\ current_aircraft' =
               [current_aircraft EXCEPT
                  ![fa_icao24].flightaware = Some(EmptyFlightAwareData)]
          \* the lock is released at line 326 with no _notify_observers()
          /\ unannounced' = unannounced \cup {fa_icao24}
          /\ fa_pc' = "fetch"
          /\ UNCHANGED enr_aircraft
     ELSE /\ fa_pc' = "loop"
          /\ enr_aircraft' = NoAircraft
          /\ UNCHANGED <<current_aircraft, unannounced>>
  /\ UNCHANGED <<now, cfg, on_aircraft_updated, snapshot, runVars, po_pc, notified, pureVars, dumpVars, lock, blocked, fa_queue, fa_request_times,
                 fa_cache, unenriched, fa_icao24, enr_data, rq_pc, rq_icao24,
                 http_log, handed, twice>>

\* line 343: aircraft.opensky.callsign.strip() of the record read at line 314
EnrichCallsign ==
  strip(Val(IF enr_aircraft.live
            THEN current_aircraft[fa_icao24].opensky.callsign
            ELSE enr_aircraft.callsign))

\* the requests that can still share a 60 s interval with a later one
RecentHttp(t) == now - t < RateWindowSeconds

\* lines 330-385: quiet hours, cache or HTTP request, parsing of the answer.
\* outcome is what requests.get does: an exception, or a response with its
\* status code and decoded body (data = None for a JSON null)
EnrichFetch(hour, outcome) ==
  /\ fa_pc = "fetch"
  /\ LET callsign == EnrichCallsign
         cached == callsign \in DOMAIN fa_cache
         response == IF cached THEN fa_cache[callsign] ELSE outcome
         quiet == ~can_process_flightaware_request(hour)
         ok == /\ ~quiet
               /\ response.kind = "response"
               /\ response.status_code = 200
               /\ response.data # None
         flights == Val(response.data)
     IN /\ http_log' = IF quiet \/ cached THEN http_log
                       ELSE Append(SelectSeq(http_log, RecentHttp), now)
        /\ fa_cache' = IF ok /\ ~cached /\ can_cache_flightaware_request(flights)
                       THEN Put(fa_cache, callsign, response)
                       ELSE fa_cache
        /\ enr_data' = IF ok THEN Some(MakeFlightAwareData(SelectFlight(flights)))
                       ELSE None
        /\ fa_pc' = IF ok THEN "write" ELSE "loop"
        /\ enr_aircraft' = IF ok THEN enr_aircraft ELSE NoAircraft
  /\ UNCHANGED <<now, cfg, on_aircraft_updated, snapshot, runVars, po_pc, notified, unannounced, pureVars, dumpVars, storeVars, fa_queue, fa_request_times,
                 unenriched, fa_icao24, rq_pc, rq_icao24, handed, twice>>

\* lines 387-389: write the result and notify, under the lock; the KeyError
\* of a record deleted since is caught at line 391
EnrichWrite ==
  /\ fa_pc = "write" /\ lock = "free"
  /\ IF fa_icao24 \in DOMAIN current_aircraft
     THEN /\ current_aircraft' =
               [current_aircraft EXCEPT ![fa_icao24].flightaware = enr_data]
          /\ notify_observers("drain", current_aircraft)
     ELSE UNCHANGED <<current_aircraft, lock, blocked, notified, unannounced>>
  /\ fa_pc' = "loop"
  /\ enr_data' = None
  /\ enr_aircraft' = NoAircraft
  /\ UNCHANGED <<now, cfg, on_aircraft_updated, snapshot, runVars, po_pc, pureVars, dumpVars, fa_queue, fa_request_times, fa_cache,
                 unenriched, fa_icao24, rq_pc, rq_icao24, http_log, handed,
                 twice>>

(***************************************************************************)
(* Inputs: lines of the local feed, states of the remote feed              *)
(***************************************************************************)
\* a line split at the commas: n fields, and the fields the handler reads
\* (logged is the result of _parse_timestamp, the numbers of _parse_float);
\* raises tells whether get_aircraft_type_from_icao24 raises for the ident
BareLine(hex, logged) ==
  [n |-> MinFields, hex |-> hex, logged |-> logged, callsign |-> <<>>,
   altitude |-> None, ground_speed |-> None, track |-> None, lat |-> None,
   lon |-> None, vertical_rate |-> None, squawk |-> <<>>,
   spi |-> FALSE, on_ground |-> FALSE, raises |-> FALSE]

\* what a line carries: an identification line (callsign, squawk), a
\* position line (the six numbers), a line without optional fields, a line
\* cut short and a line without hex ident
Line(kind, hex, logged) ==
  LET b == BareLine(hex, logged)
  IN CASE kind = "ident" -> [b EXCEPT !.callsign = <<"U", "1", " ">>,
                                      !.squawk = <<"7", "0">>]
       [] kind = "position" -> [b EXCEPT !.altitude = Some(32809),
                                         !.ground_speed = Some(389),
                                         !.track = Some(90),
                                         !.lat = Some(45), !.lon = Some(7),
                                         !.vertical_rate = Some(1969)]
       [] kind = "bare" -> [b EXCEPT !.on_ground = TRUE]
       [] kind = "short" -> [b EXCEPT !.n = MinFields - 1,
                                      !.callsign = <<"U", "1", " ">>]
       [] kind = "nohex" -> [b EXCEPT !.hex = <<" ">>,
                                      !.callsign = <<"U", "1", " ">>]

\* the logged timestamps a line can carry: the present, an earlier one
\* (lines arrive out of order), or an unparseable one
LoggedTimes ==
  {None, Some(now)} \cup (IF now >= ClockStep THEN {Some(now - ClockStep)} ELSE {})

LineKinds == {"ident", "position", "bare", "short", "nohex"}
Lines(rawHex) == {Line(k, h, t) : k \in LineKinds, h \in rawHex, t \in LoggedTimes}

\* a state vector of the remote feed: complete, or without callsign
RemoteState(withCallsign, t) ==
  [NewOpenSkyData EXCEPT
     !.callsign = IF withCallsign THEN Some(<<"D", "2", " ">>) ELSE None,
     !.last_contact = t,
     !.last_position = Some(t), !.baro_altitude = Some(9000),
     !.velocity = Some(210), !.true_track = Some(180),
     !.latitude = Some(46), !.longitude = Some(8),
     !.vertical_rate = Some(0), !.squawk = Some(<<"1", "2">>)]

ContactTimes == {now} \cup (IF now >= ClockStep THEN {now - ClockStep} ELSE {})
RemoteStates == {RemoteState(c, t) : c \in BOOLEAN, t \in ContactTimes}

\* the answers of one poll: any set of aircraft in the bounding box
Polls(ids, states) == UNION {[S -> states] : S \in SUBSET ids}

\* the aircraft in range of the feeds, and its hex ident as the local feed
\* writes it; request_enrich is also called for the other id of Ids
FeedIds == {<<"a", "1">>}
FeedHex == {<<"A", "1", " ">>}

(***************************************************************************)
(* Spec: both feeds into the fusion store (hybrid mode, no enrichment)     *)
(***************************************************************************)
HybridConfig ==
  [flightaware_api_key |-> FALSE,
   aircraft_expire_seconds |-> ExpireSeconds,
   max_flightaware_requests_per_minute |-> MaxPerMinute,
   quiet_start |-> None, quiet_end |-> None,
   dump1090 |-> TRUE, opensky |-> TRUE]

\* the enrichment state after HybridAPI.__init__
EnrichInit ==
  /\ fa_queue = <<>>
  /\ fa_request_times = <<>>
  /\ fa_cache = EmptyDict
  /\ fa_pc = "pass"
  /\ unenriched = <<>>
  /\ fa_icao24 = <<>>
  /\ enr_aircraft = NoAircraft
  /\ enr_data = None
  /\ rq_pc = "idle"
  /\ rq_icao24 = <<>>
  /\ http_log = <<>>
  /\ handed = {}
  /\ twice = {}

\* no function-level run in progress
NoCall ==
  /\ call_args = None
  /\ call_result = None

Init ==
  /\ now = 0
  /\ cfg = HybridConfig
  /\ aircraft = EmptyDict
  /\ rd_pc = "connecting"
  /\ cb_pc = "sleep"
  /\ cb_list = EmptyDict
  /\ current_aircraft = EmptyDict
  /\ lock = "free"
  /\ blocked = {}
  /\ EnrichInit
  /\ on_aircraft_updated = <<"store">>
  /\ snapshot = None
  /\ StartedInit
  /\ NoCall

Next ==
  \/ Tick
  \/ \E ok \in BOOLEAN : DumpConnect(ok)
  \/ \E m \in Lines(FeedHex) : DumpRecv(m)
  \/ DumpExpire
  \/ DumpDisconnect
  \/ DumpRetry
  \/ CallbackTake
  \/ process_dump1090_states
  \/ \E states \in Polls(FeedIds, RemoteStates) : process_opensky_states(states)

Spec == Init /\ [][Next]_vars

(***************************************************************************)
(* Fusion store: eviction, field preservation, last_contact                *)
(***************************************************************************)
\* a step that runs _merge_osky_states to completion
MergeBatchStep ==
  \/ process_dump1090_states
  \/ \E states \in Polls(Ids, RemoteStates) : process_opensky_states(states)

Age(rec) == now - rec.opensky.last_contact

\* C1: after any merge batch the table holds no record older than the expiry
\* window, whether or not its id was in the batch, and still holds every
\* record that was present and within the window.
C1_MergeLeavesNoStaleRecord ==
  [][MergeBatchStep =>
       /\ \A i \in DOMAIN current_aircraft' :
            Age(current_aircraft'[i]) <= cfg.aircraft_expire_seconds
       /\ \A i \in DOMAIN current_aircraft :
            Age(current_aircraft[i]) <= cfg.aircraft_expire_seconds
              => i \in DOMAIN current_aircraft']_vars

\* C6: neither a local-feed line nor a merge replaces a set value of one of
\* the eight optional fields of an existing record by None.
KeepsFields(old, new) == \A f \in OptFields : old[f] # None => new[f] # None

C7_LastContactNeverDecreases ==
  [][\A i \in DOMAIN current_aircraft \cap DOMAIN current_aircraft' :
        current_aircraft'[i].opensky.last_contact
          >= current_aircraft[i].opensky.last_contact]_vars

(***************************************************************************)
(* SpecEnrich: remote feed, request_enrich and the enrichment worker       *)
(***************************************************************************)
\* the remote states of this specification carry a callsign or none
CallsignState(withCallsign, t) ==
  [NewOpenSkyData EXCEPT
     !.callsign = IF withCallsign THEN Some(<<"U", "1", " ">>) ELSE None,
     !.last_contact = t]

CallsignStates == {CallsignState(c, now) : c \in BOOLEAN}

\* legs of an answer of the flights-by-callsign endpoint
Leg(status, origin, destination) ==
  [EmptyLeg EXCEPT !.status = Some(status), !.origin = Some(origin),
                   !.destination = Some(destination),
                   !.aircraft_type = Some("B738"),
                   !.operator_iata = Some("UA"), !.flight_number = Some("12")]

Response(code, data) == [kind |-> "response", status_code |-> code, data |-> data]

\* same route twice, two routes, no leg, an error status, a JSON null
SameLegs == <<Leg("Arrived", "SFO", "JFK"), Leg("En Route / On Time", "SFO", "JFK")>>
MixedLegs == <<Leg("Scheduled", "JFK", "SFO"), Leg("En Route / On Time", "SFO", "JFK")>>

Outcomes ==
  {Response(200, Some(SameLegs)), Response(200, Some(MixedLegs)),
   Response(200, Some(<<>>)), Response(404, None),
   [kind |-> "exception", status_code |-> 0, data |-> None]}

\* local hours at which the client runs: outside and inside the quiet window
EnrichHours == {10, 23}

EnrichConfig ==
  [HybridConfig EXCEPT !.flightaware_api_key = TRUE, !.dump1090 = FALSE,
                       !.aircraft_expire_seconds = ShortExpireSeconds,
                       !.quiet_start = Some(22), !.quiet_end = Some(6)]

InitEnrich ==
  /\ now = 0
  /\ cfg = EnrichConfig
  /\ aircraft = EmptyDict
  /\ rd_pc = "connecting"
  /\ cb_pc = "sleep"
  /\ cb_list = EmptyDict
  /\ current_aircraft = EmptyDict
  /\ lock = "free"
  /\ blocked = {}
  /\ EnrichInit
  /\ on_aircraft_updated = <<"store">>
  /\ snapshot = None
  /\ StartedInit
  /\ NoCall

NextEnrich ==
  \/ Tick
  \/ \E states \in Polls(FeedIds, CallsignStates) : process_opensky_states(states)
  \/ \E icao24 \in Ids : RequestEnrichBegin(icao24)
  \/ RequestEnrichEnd
  \/ DrainPass
  \/ DrainIdle
  \/ DrainRateCheck
  \/ DrainDequeueCheck
  \/ DrainDequeueRemove
  \/ EnrichRead
  \/ EnrichMark
  \/ \E hour \in EnrichHours, outcome \in Outcomes : EnrichFetch(hour, outcome)
  \/ EnrichWrite

SpecEnrich == InitEnrich /\ [][NextEnrich]_vars

(***************************************************************************)
(* Enrichment: rate limit, queue, hand-over, cache                         *)
(***************************************************************************)
Last(s) == s[Len(s)]

\* the HTTP requests issued within the 60 s that end with the latest one
RequestsOfLastMinute ==
  {k \in 1..Len(http_log) : Last(http_log) - http_log[k] < RateWindowSeconds}

\* the timestamps of the rate window younger than 60 s
YoungSlots == {k \in 1..Len(fa_request_times) : RecentRequest(fa_request_times[k])}

SlotHeld == {"dequeue", "remove", "enrich", "mark", "fetch"}

NoDuplicates(q) == \A j, k \in 1..Len(q) : j # k => q[j] # q[k]

\* C5: fa_queue never holds an id twice, and the step by which
\* request_enrich(id) returns leaves id as the last element of the queue.
C5_QueueHoldsIdOnceAndLast ==
  [][/\ NoDuplicates(fa_queue')
     /\ rq_pc = "append" /\ rq_pc' = "idle" =>
          fa_queue' # <<>> /\ Last(fa_queue') = rq_icao24
    ]_vars

\* C5 witness: request_enrich has returned for an id that was queued already
\* (the worker, between lines 254 and 255, still means to remove it) and the
\* id is queued once, behind the id requested before it
C5_Witness ==
  /\ rq_pc = "idle"
  /\ fa_pc = "remove"
  /\ fa_queue = <<(<<"b", "2">>), fa_icao24>>

\* C8 as stated: no id is handed to the enrichment client a second time
\* while its record stays in the table.
C8_HandedAtMostOnce == twice = {}

\* a 200 answer with at least one leg, all legs of one origin, destination
\* and aircraft type, received outside the quiet hours
SameRouteAnswer(hour, outcome) ==
  /\ can_process_flightaware_request(hour)
  /\ outcome.kind = "response" /\ outcome.status_code = 200
  /\ outcome.data # None
  /\ Val(outcome.data) # <<>>
  /\ \E o, d, t \in {None, Some("SFO"), Some("JFK"), Some("B738")} :
       \A k \in 1..Len(Val(outcome.data)) :
         /\ Val(outcome.data)[k].origin = o
         /\ Val(outcome.data)[k].destination = d
         /\ Val(outcome.data)[k].aircraft_type = t

\* C9: a 200 answer whose legs share origin, destination and aircraft type
\* leaves the callsign in the cache; the cache never loses or changes an
\* entry; and an enrichment for a cached callsign issues no HTTP request and
\* takes its result from the cached answer.
C9_CachedCallsignNeedsNoRequest ==
  [][/\ \A c \in DOMAIN fa_cache :
          c \in DOMAIN fa_cache' /\ fa_cache'[c] = fa_cache[c]
     /\ \A hour \in EnrichHours, outcome \in Outcomes :
          EnrichFetch(hour, outcome) =>
            /\ SameRouteAnswer(hour, outcome) => EnrichCallsign \in DOMAIN fa_cache'
            /\ EnrichCallsign \in DOMAIN fa_cache =>
                 /\ http_log' = http_log
                 /\ can_process_flightaware_request(hour) =>
                      enr_data' = Some(MakeFlightAwareData(SelectFlight(
                                    Val(fa_cache[EnrichCallsign].data))))
    ]_vars

\* C9 witness: an iteration whose slot is newer than the last HTTP request
\* has its result from the cache
C9_Witness ==
  /\ fa_pc = "write"
  /\ <<"U", "1">> \in DOMAIN fa_cache
  /\ http_log # <<>> /\ fa_request_times # <<>>
  /\ Last(http_log) < Last(fa_request_times)
  /\ enr_data # None

(***************************************************************************)
(* SpecReentrant: SpecEnrich with an observer that calls request_enrich    *)
(***************************************************************************)
NextReentrant ==
  \/ NextEnrich
  \/ add_observer("enrich")

SpecReentrant == InitEnrich /\ [][NextReentrant]_vars

\* C4 as stated: no thread waits for the store lock while it holds that lock
\* itself, so an observer that calls request_enrich during its notification
\* returns.
C4_ObserverMayRequestEnrich == \A t \in blocked : lock # t

(***************************************************************************)
(* SpecMerge: two states of one aircraft merged in both orders             *)
(***************************************************************************)
\* a state with its callsign and position carried or absent
MergeState(callsign, latitude, velocity, t) ==
  [NewOpenSkyData EXCEPT
     !.callsign = callsign, !.latitude = latitude,
     !.longitude = IF latitude = None THEN None ELSE Some(7),
     !.last_position = IF latitude = None THEN None ELSE Some(t),
     !.velocity = velocity, !.last_contact = t]

MergeStates(t) ==
  {MergeState(c, l, v, t) :
     c \in {None, Some(<<"U", "1">>), Some(<<"D", "2">>)},
     l \in {None, Some(45), Some(46)},
     v \in {None, Some(210)}}

\* the batch [st] for the aircraft of the feeds
BatchOf(st) == [i \in FeedIds |-> [obj |-> st, live |-> FALSE]]

\* _merge_osky_states([first]) then _merge_osky_states([second]) on an empty
\* table
MergedInOrder(first, second) ==
  MergedTable(MergedTable(EmptyDict, BatchOf(first)), BatchOf(second))

InitMerge ==
  /\ now = ClockStep
  /\ cfg = HybridConfig
  /\ aircraft = EmptyDict
  /\ rd_pc = "connecting"
  /\ cb_pc = "sleep"
  /\ cb_list = EmptyDict
  /\ current_aircraft = EmptyDict
  /\ lock = "free"
  /\ blocked = {}
  /\ EnrichInit
  /\ on_aircraft_updated = <<"store">>
  /\ snapshot = None
  /\ StartedInit
  /\ call_args \in {Some([a |-> a, b |-> b]) :
                      a \in MergeStates(0), b \in MergeStates(ClockStep)}
  /\ call_result = None

\* both orders of the two batches
MergeBothOrders ==
  /\ call_result = None
  /\ call_result' =
       Some([ab |-> MergedInOrder(Val(call_args).a, Val(call_args).b),
             ba |-> MergedInOrder(Val(call_args).b, Val(call_args).a)])
  /\ UNCHANGED <<now, cfg, on_aircraft_updated, snapshot, runVars, po_pc, notified, unannounced, call_args, dumpVars, storeVars,
                 enrichVars, hookVars>>

NextMerge == MergeBothOrders

SpecMerge == InitMerge /\ [][NextMerge]_vars

\* C2 as stated: for a.last_contact < b.last_contact, batch [a] then batch
\* [b] into an empty table leaves the same record as [b] then [a].
C2_MergeTimestampCommutative ==
  call_result # None => Val(call_result).ab = Val(call_result).ba

(***************************************************************************)
(* SpecQuiet: _can_process_flightaware_request over the quiet windows      *)
(***************************************************************************)
\* datetime.hour
Hours == 0..23
QuietSettings == {None} \cup {Some(h) : h \in Hours}

InitQuiet ==
  /\ now = 0
  /\ cfg \in {[EnrichConfig EXCEPT !.quiet_start = start, !.quiet_end = end] :
               start \in QuietSettings, end \in QuietSettings}
  /\ aircraft = EmptyDict
  /\ rd_pc = "connecting"
  /\ cb_pc = "sleep"
  /\ cb_list = EmptyDict
  /\ current_aircraft = EmptyDict
  /\ lock = "free"
  /\ blocked = {}
  /\ EnrichInit
  /\ on_aircraft_updated = <<"store">>
  /\ snapshot = None
  /\ StartedInit
  /\ NoCall

\* one call at local hour `hour`
CallCanProcess(hour) ==
  /\ call_args = None
  /\ call_args' = Some(hour)
  /\ call_result' = Some(can_process_flightaware_request(hour))
  /\ UNCHANGED <<now, cfg, on_aircraft_updated, snapshot, runVars, po_pc, notified, unannounced, dumpVars, storeVars,
                 enrichVars, hookVars>>

NextQuiet == \E hour \in Hours : CallCanProcess(hour)

SpecQuiet == InitQuiet /\ [][NextQuiet]_vars

\* C10 as stated: with quiet_start <= quiet_end, the call returns False
\* exactly at the hours with quiet_start <= hour < quiet_end.
C10_NonWrapQuietWindow ==
  /\ call_result # None
  /\ cfg.quiet_start # None /\ cfg.quiet_end # None
  /\ Val(cfg.quiet_start) <= Val(cfg.quiet_end)
  => (Val(call_result) = FALSE
        <=> /\ Val(cfg.quiet_start) <= Val(call_args)
            /\ Val(call_args) < Val(cfg.quiet_end))

\* C11: with quiet_start > quiet_end, the call returns False exactly at the
\* hours with hour >= quiet_start or hour < quiet_end; with 22 and 6, the
\* hours 23 and 2 are quiet and hour 10 is not.
C11_WrapQuietWindow ==
  /\ call_result # None
  /\ cfg.quiet_start # None /\ cfg.quiet_end # None
  /\ Val(cfg.quiet_start) > Val(cfg.quiet_end)
  => /\ Val(call_result) = FALSE
          <=> \/ Val(call_args) >= Val(cfg.quiet_start)
              \/ Val(call_args) < Val(cfg.quiet_end)
     /\ cfg.quiet_start = Some(22) /\ cfg.quiet_end = Some(6) =>
          /\ call_args \in {Some(23), Some(2)} => call_result = Some(FALSE)
          /\ call_args = Some(10) => call_result = Some(TRUE)

\* C11 witness: the window 22 to 6 at hour 23, found quiet
C11_Witness ==
  /\ cfg.quiet_start = Some(22) /\ cfg.quiet_end = Some(6)
  /\ call_args = Some(23)
  /\ call_result = Some(FALSE)

(***************************************************************************)
(* SpecDayQuiet: SpecEnrich with a quiet window that does not wrap         *)
(***************************************************************************)
\* quiet from 8 to 12: of the hours of EnrichHours, 10 is inside
DayQuietConfig ==
  [EnrichConfig EXCEPT !.quiet_start = Some(8), !.quiet_end = Some(12)]

InitDayQuiet ==
  /\ now = 0
  /\ cfg = DayQuietConfig
  /\ aircraft = EmptyDict
  /\ rd_pc = "connecting"
  /\ cb_pc = "sleep"
  /\ cb_list = EmptyDict
  /\ current_aircraft = EmptyDict
  /\ lock = "free"
  /\ blocked = {}
  /\ EnrichInit
  /\ on_aircraft_updated = <<"store">>
  /\ snapshot = None
  /\ StartedInit
  /\ NoCall

SpecDayQuiet == InitDayQuiet /\ [][NextEnrich]_vars

\* the quiet hours of the configured window: from quiet_start up to, not
\* including, quiet_end, around midnight when quiet_start > quiet_end
InQuietWindow(hour) ==
  /\ cfg.quiet_start # None /\ cfg.quiet_end # None
  /\ IF Val(cfg.quiet_start) > Val(cfg.quiet_end)
     THEN hour >= Val(cfg.quiet_start) \/ hour < Val(cfg.quiet_end)
     ELSE Val(cfg.quiet_start) <= hour /\ hour < Val(cfg.quiet_end)

\* C12 as stated: when the client runs during quiet hours it issues no HTTP
\* request and leaves the record it read with the empty enrichment, which
\* keeps the id out of the later drain passes.
C12_QuietHoursSkipRequest ==
  [][\A hour \in EnrichHours, outcome \in Outcomes :
       EnrichFetch(hour, outcome) /\ InQuietWindow(hour) =>
         /\ http_log' = http_log
         /\ fa_pc' = "loop"
         /\ enr_aircraft.live =>
              /\ fa_icao24 \in DOMAIN current_aircraft'
              /\ current_aircraft'[fa_icao24].flightaware
                   = Some(EmptyFlightAwareData)
    ]_vars

(***************************************************************************)
(* SpecCountry: get_country_from_icao24 over addresses                     *)
(***************************************************************************)
\* addresses of six characters in both cases, shorter ones, one with
\* surrounding and one with inner spaces, a longer one, one that is no hex
Addresses ==
  {<<a, b, c, d, d, d>> : a \in {"0", "3", "4"}, b \in {"0", "c", "C", "F"},
                          c \in {"0", "3", "4", "6"}, d \in {"0", "4", "F"}}
  \cup {<<>>, <<"0">>, <<"3", "C">>, <<"3", "c", "6">>,
        <<" ", "3", "c", "6", "4", "4", "4", " ">>,
        <<"3", "C", " ", "6", "4", "4", "4">>,
        <<"3", "C", "6", "4", "4", "4", "9">>,
        <<"g", "0", "0", "0", "0", "0">>}

InitCountry ==
  /\ now = 0
  /\ cfg = HybridConfig
  /\ aircraft = EmptyDict
  /\ rd_pc = "connecting"
  /\ cb_pc = "sleep"
  /\ cb_list = EmptyDict
  /\ current_aircraft = EmptyDict
  /\ lock = "free"
  /\ blocked = {}
  /\ EnrichInit
  /\ on_aircraft_updated = <<"store">>
  /\ snapshot = None
  /\ StartedInit
  /\ call_args \in {Some(a) : a \in Addresses}
  /\ call_result = None

CallGetCountry ==
  /\ call_result = None
  /\ call_result' = Some(get_country_from_icao24(Val(call_args)))
  /\ UNCHANGED <<now, cfg, on_aircraft_updated, snapshot, runVars, po_pc, notified, unannounced, call_args, dumpVars, storeVars,
                 enrichVars, hookVars>>

NextCountry == CallGetCountry

SpecCountry == InitCountry /\ [][NextCountry]_vars

\* the ranges that contain an address
RangesOf(n) ==
  {k \in 1..Len(ICAO24_RANGES) :
     /\ HexToInt(ICAO24_RANGES[k][1]) <= n
     /\ n <= HexToInt(ICAO24_RANGES[k][2])}

Minimum(S) == CHOOSE k \in S : \A j \in S : k <= j

\* C13 as stated: the result is the name of the first range that contains
\* the upper-cased, zero-padded address, None when no range does; an address
\* in 3C0000-3FFFFF gives "Germany"; an address in 000000-003FFF gives None.
C13_CountryOfAddress ==
  call_result # None /\ AddressOf(Val(call_args)) # None =>
    LET n == Val(AddressOf(Val(call_args)))
        country == Val(call_result)
    IN /\ RangesOf(n) = {} => country = None
       /\ HexToInt(<<"3", "C", "0", "0", "0", "0">>) <= n
            /\ n <= HexToInt(<<"3", "F", "F", "F", "F", "F">>)
          => country = Some("Germany")
       /\ n <= HexToInt(<<"0", "0", "3", "F", "F", "F">>) => country = None
       /\ RangesOf(n) # {} /\ n > HexToInt(<<"0", "0", "3", "F", "F", "F">>)
          => country = Some(ICAO24_RANGES[Minimum(RangesOf(n))][4])

(***************************************************************************)
(* SpecLine: one well-formed line of the local feed, then the callback     *)
(***************************************************************************)
\* a line with hex ident, callsign, position and a parseable logged time
FullLine(hex, callsign, logged) ==
  [BareLine(hex, Some(logged)) EXCEPT
     !.callsign = callsign, !.lat = Some(45), !.lon = Some(7)]

\* hex idents and callsigns as written, each with what is expected of it
HexCases ==
  {<<(<<"A", "1", " ">>), (<<"a", "1">>)>>,
   <<(<<"a", "1">>), (<<"a", "1">>)>>,
   <<(<<" ", "B", "2">>), (<<"b", "2">>)>>}

CallsignCases ==
  {<<(<<"U", "1", " ">>), Some(<<"U", "1">>)>>,
   <<(<<" ", "U", "1", " ", " ">>), Some(<<"U", "1">>)>>,
   <<(<<"U", " ", "1">>), Some(<<"U", " ", "1">>)>>,
   <<(<<" ">>), None>>}

\* the line, and the id, callsign and timestamp its record is to have
LineCases(t) ==
  {[line |-> FullLine(h[1], c[1], logged), id |-> h[2], callsign |-> c[2],
    logged |-> logged] :
     h \in HexCases, c \in CallsignCases,
     logged \in {t} \cup (IF t >= ClockStep THEN {t - ClockStep} ELSE {})}

InitLine ==
  /\ now \in {0, ClockStep}
  /\ cfg = HybridConfig
  /\ aircraft = EmptyDict
  /\ rd_pc = "connecting"
  /\ cb_pc = "sleep"
  /\ cb_list = EmptyDict
  /\ current_aircraft = EmptyDict
  /\ lock = "free"
  /\ blocked = {}
  /\ EnrichInit
  /\ on_aircraft_updated = <<"store">>
  /\ snapshot = None
  /\ StartedInit
  /\ call_args \in {Some(c) : c \in LineCases(now)}
  /\ call_result = None

\* the reader receives the line (a feed may repeat it), the callback thread
\* hands the states to the store, time passes
NextLine ==
  \/ Tick
  \/ \E ok \in BOOLEAN : DumpConnect(ok)
  \/ DumpRecv(Val(call_args).line)
  \/ DumpExpire
  \/ DumpDisconnect
  \/ DumpRetry
  \/ CallbackTake
  \/ process_dump1090_states

SpecLine == InitLine /\ [][NextLine]_vars

\* what the line is to leave in a table: one entry under the lower-cased
\* hex id with the stripped callsign, last_position and last_contact at the
\* logged timestamp
RecordOfLine(table, state) ==
  /\ DOMAIN table = {Val(call_args).id}
  /\ state.callsign = Val(call_args).callsign
  /\ state.last_position = Some(Val(call_args).logged)
  /\ state.last_contact = Val(call_args).logged
  /\ state.latitude = Some(45) /\ state.longitude = Some(7)

NextSnapshot ==
  \/ NextEnrich
  \/ get_current_aircraft

SpecSnapshot == InitEnrich /\ [][NextSnapshot]_vars

\* C15 as stated: what a snapshot shows of each aircraft, its fields and its
\* enrichment, stays what it was when the snapshot was taken.
C15_SnapshotIsPointInTime ==
  snapshot # None =>
    \A i \in DOMAIN Val(snapshot).taken :
      /\ SeenThrough(i).opensky = Val(snapshot).taken[i].opensky
      /\ SeenThrough(i).flightaware = Val(snapshot).taken[i].flightaware

(***************************************************************************)
(* SpecObservers: SpecEnrich with observers registered while it runs, one  *)
(* of them raising                                                         *)
(***************************************************************************)
NextObservers ==
  \/ NextEnrich
  \/ add_observer("raise")
  \/ add_observer("log")

SpecObservers == InitEnrich /\ [][NextObservers]_vars

\* the batch _process_opensky_states hands to the merge
PollBatch(states) ==
  [i \in DOMAIN states |-> [obj |-> states[i], live |-> FALSE]]

\* C16: a notification invokes every registered observer, also those that
\* come after one that raises; the table is the merged table, no worker ends
\* and the worker that merged does not hang.
C16_RaisingObserverIsIsolated ==
  /\ [][\A states \in Polls(FeedIds, CallsignStates) :
          process_opensky_states(states) =>
            /\ notified' = on_aircraft_updated
            /\ current_aircraft' =
                 MergedTable(current_aircraft, PollBatch(states))
            /\ exited' = exited /\ blocked' = blocked /\ lock' = "free"]_vars
  /\ [][EnrichWrite /\ fa_icao24 \in DOMAIN current_aircraft =>
          /\ notified' = on_aircraft_updated
          /\ exited' = exited /\ blocked' = blocked /\ lock' = "free"]_vars

\* C16 witness: a notification of a non-empty table has invoked an observer
\* that raises and then another observer
C16_Witness ==
  /\ DOMAIN current_aircraft # {}
  /\ \E k \in 1..Len(notified) : notified[k] = "raise" /\ k < Len(notified)

(***************************************************************************)
(* SpecRemote: remote-only mode, the poller alone feeds the store          *)
(***************************************************************************)
RemoteConfig == [HybridConfig EXCEPT !.dump1090 = FALSE]

InitRemote ==
  /\ now = 0
  /\ cfg = RemoteConfig
  /\ aircraft = EmptyDict
  /\ rd_pc = "connecting"
  /\ cb_pc = "sleep"
  /\ cb_list = EmptyDict
  /\ current_aircraft = EmptyDict
  /\ lock = "free"
  /\ blocked = {}
  /\ EnrichInit
  /\ on_aircraft_updated = <<"store">>
  /\ snapshot = None
  /\ StartedInit
  /\ NoCall

NextRemote ==
  \/ Tick
  \/ \E states \in Polls(Ids, RemoteStates) : process_opensky_states(states)
  \/ get_current_aircraft

SpecRemote == InitRemote /\ [][NextRemote]_vars

\* C17 as stated: without a local feed, the table after a successful poll
\* holds exactly the ids of that poll; an aircraft the poll does not list is
\* removed whatever its last_contact.
C17_TableIsLatestPoll ==
  [][\A states \in Polls(Ids, RemoteStates) :
       process_opensky_states(states) =>
         DOMAIN current_aircraft' = DOMAIN states]_vars

(***************************************************************************)
(* SpecWorkers: the four worker loops with their failures, and stop()      *)
(***************************************************************************)
WorkersConfig == [HybridConfig EXCEPT !.flightaware_api_key = TRUE]

InitWorkers ==
  /\ now = 0
  /\ cfg = WorkersConfig
  /\ aircraft = EmptyDict
  /\ rd_pc = "connecting"
  /\ cb_pc = "sleep"
  /\ cb_list = EmptyDict
  /\ current_aircraft = EmptyDict
  /\ lock = "free"
  /\ blocked = {}
  /\ EnrichInit
  /\ on_aircraft_updated = <<"store">>
  /\ snapshot = None
  /\ StartedInit
  /\ NoCall

\* one line, one remote state and three answers are enough to run the loops
WorkerLines == {Line("ident", h, Some(now)) : h \in FeedHex}
WorkerPolls == Polls(FeedIds, {CallsignState(TRUE, now)})
WorkerOutcomes ==
  {Response(200, Some(SameLegs)), Response(404, None),
   [kind |-> "exception", status_code |-> 0, data |-> None]}

ReaderLoop ==
  \/ \E ok \in BOOLEAN : DumpConnect(ok)
  \/ \E m \in WorkerLines : DumpRecv(m)
  \/ DumpExpire
  \/ DumpDisconnect
  \/ DumpRetry

CallbackLoop ==
  \/ CallbackTake
  \/ process_dump1090_states
  \/ CallbackError

PollerLoop ==
  \/ \E states \in WorkerPolls : process_opensky_states(states)
  \/ PollError
  \/ PollRetry

DrainLoop ==
  \/ DrainPass
  \/ DrainIdle
  \/ DrainRateCheck
  \/ DrainDequeueCheck
  \/ DrainDequeueRemove
  \/ EnrichRead
  \/ EnrichMark
  \/ \E outcome \in WorkerOutcomes : EnrichFetch(10, outcome)
  \/ EnrichWrite

\* the clock stands still: with one aircraft no branch of the loops' control
\* flow depends on it
NextWorkers ==
  \/ ReaderLoop
  \/ CallbackLoop
  \/ PollerLoop
  \/ DrainLoop
  \/ \E icao24 \in FeedIds : RequestEnrichBegin(icao24)
  \/ RequestEnrichEnd

\* every thread that can take a step takes one, the drain worker gets the
\* lock it waits for, and request_enrich releases the lock
SpecWorkers ==
  /\ InitWorkers /\ [][NextWorkers]_vars
  /\ WF_vars(ReaderLoop)
  /\ WF_vars(CallbackLoop)
  /\ WF_vars(PollerLoop)
  /\ SF_vars(DrainLoop)
  /\ WF_vars(RequestEnrichEnd)

(***************************************************************************)
(* SpecStop: SpecWorkers with a stop() at any moment                       *)
(***************************************************************************)
ReaderStep == ReaderLoop \/ ObserveStop("reader")
CallbackStep == CallbackLoop \/ ObserveStop("callback")
PollerStep == PollerLoop \/ ObserveStop("poller")
DrainStep == DrainLoop \/ DrainBreak \/ ObserveStop("drain")

NextStop ==
  \/ ReaderStep
  \/ CallbackStep
  \/ PollerStep
  \/ DrainStep
  \/ \E icao24 \in FeedIds : RequestEnrichBegin(icao24)
  \/ RequestEnrichEnd
  \/ stop

SpecStop ==
  /\ InitWorkers /\ [][NextStop]_vars
  /\ WF_vars(ReaderStep)
  /\ WF_vars(CallbackStep)
  /\ WF_vars(PollerStep)
  /\ SF_vars(DrainStep)
  /\ WF_vars(RequestEnrichEnd)

\* C18: while the service runs no worker loop ends, whatever fails inside an
\* iteration, and each loop gets from a failed iteration to its next one:
\* the poller and the reader leave their retry sleep, the callback thread
\* returns from the callback, the drain worker starts its next pass.
C18_FailuresEndNoLoop ==
  /\ [](running => exited = {})
  /\ (po_pc = "backoff" ~> po_pc = "poll")
  /\ (rd_pc = "backoff" ~> rd_pc = "connecting")
  /\ (cb_pc = "call" ~> cb_pc = "sleep")
  /\ (fa_pc # "pass" ~> fa_pc = "pass")

\* C18 witness: the service runs, the poll and the connection have failed
\* and the drain pass has been ended by a failed removal from the queue
C18_Witness ==
  /\ running
  /\ po_pc = "backoff" /\ rd_pc = "backoff"
  /\ fa_pc = "pass" /\ fa_request_times # <<>> /\ handed = {}

\* C20: once stop() has run, a worker at the check of its loop does nothing
\* but leave the loop, a worker that has left does nothing more (no connect,
\* no line, no poll, no merge, no enrichment), and every worker leaves.
C20_StopEndsEveryLoop ==
  /\ [][/\ (~dump_running /\ "reader" \notin inflight =>
              rd_pc' = rd_pc /\ aircraft' = aircraft)
         /\ (~dump_running /\ "callback" \notin inflight => cb_pc' = cb_pc)
         /\ (~running /\ "poller" \notin inflight => po_pc' = po_pc)
         /\ (~running /\ {"poller", "callback"} \cap inflight = {}
               /\ fa_pc \in {"pass", "loop"} =>
                UNCHANGED <<current_aircraft, notified>>)
         /\ (~running /\ fa_pc \in {"pass", "loop"} =>
              /\ fa_pc' \in {fa_pc, "pass"}
              /\ UNCHANGED <<http_log, fa_request_times, handed>>)]_vars
  /\ [][exited' # exited => ~running]_vars
  /\ (~running ~> exited = Workers)

\* C20 witness: every loop has ended after a stop() that found the feed
\* workers inside an iteration, with an aircraft in the table
C20_Witness ==
  /\ ~running /\ exited = Workers /\ Workers = {"reader", "callback", "poller", "drain"}
  /\ DOMAIN current_aircraft # {}
  /\ fa_queue # <<>>

(***************************************************************************)
(* SpecStarve: the enrichment under a clock that never stops               *)
(***************************************************************************)
\* The code reads the clock only in differences (lines 212-216, 283-285), so
\* a run longer than MaxNow is modelled by moving the origin of time: every
\* stored timestamp gets ClockStep older while `now` stays. A timestamp at
\* the origin is older than every window and stays there.
Older(t) == IF t >= ClockStep THEN t - ClockStep ELSE 0

OlderState(st) ==
  [st EXCEPT !.last_contact = Older(@),
             !.last_position = IF @ = None THEN None ELSE Some(Older(Val(@)))]

Advance ==
  /\ now + ClockStep > MaxNow
  /\ current_aircraft' = [i \in DOMAIN current_aircraft |->
       [current_aircraft[i] EXCEPT !.opensky = OlderState(@)]]
  /\ fa_request_times' = [k \in DOMAIN fa_request_times |->
                            Older(fa_request_times[k])]
  /\ http_log' = [k \in DOMAIN http_log |-> Older(http_log[k])]
  /\ UNCHANGED <<now, cfg, on_aircraft_updated, snapshot, runVars, po_pc,
                 notified, unannounced, pureVars, dumpVars, lock, blocked, fa_queue,
                 fa_cache, fa_pc, unenriched, fa_icao24, enr_data, rq_pc,
                 rq_icao24, hookVars>>

\* the answers of the endpoint in this specification
StarveOutcomes ==
  {Response(200, Some(SameLegs)),
   [kind |-> "exception", status_code |-> 0, data |-> None]}

StarveDrain ==
  \/ DrainPass
  \/ DrainIdle
  \/ DrainRateCheck
  \/ DrainDequeueCheck
  \/ DrainDequeueRemove
  \/ EnrichRead
  \/ EnrichMark
  \/ \E outcome \in StarveOutcomes : EnrichFetch(10, outcome)
  \/ EnrichWrite

NextStarve ==
  \/ Tick
  \/ Advance
  \/ \E states \in Polls(Ids, {CallsignState(TRUE, now)}) :
       process_opensky_states(states)
  \/ \E icao24 \in Ids : RequestEnrichBegin(icao24)
  \/ RequestEnrichEnd
  \/ StarveDrain

\* time passes, the drain worker runs and gets the lock it waits for, and
\* request_enrich releases the lock
SpecStarve ==
  /\ InitEnrich /\ [][NextStarve]_vars
  /\ WF_vars(Tick) /\ WF_vars(Advance)
  /\ SF_vars(StarveDrain)
  /\ WF_vars(RequestEnrichEnd)

\* C19 as stated: an id that is in the queue while its record has a callsign
\* and no enrichment is handed to the client, unless its record stops being
\* such a record.
C19_NoStarvation ==
  \A i \in Ids :
    (i \in SeqToSet(fa_queue) /\ Eligible(i)) ~> (i \in handed \/ ~Eligible(i))

(***************************************************************************)
(* The client's early return (Hybrid.py lines 314-316)                     *)
(***************************************************************************)
\* C21 as stated: the client never returns from a call that found the
\* record of its id in the table while that record's enrichment is None.
C21_ClientCallLeavesEnrichment ==
  [][fa_pc = "enrich" /\ fa_pc' = "loop"
       /\ fa_icao24 \in DOMAIN current_aircraft
     => current_aircraft'[fa_icao24].flightaware # None]_vars

(***************************************************************************)
(* SpecBlank: SpecEnrich with a remote state whose callsign is blank       *)
(***************************************************************************)
\* _process_opensky_states copies state.callsign as it comes (line 158),
\* without strip(): a callsign of spaces is stored as it is
BlankCallsignState(t) ==
  [NewOpenSkyData EXCEPT !.callsign = Some(<<" ", " ">>), !.last_contact = t]

NextBlank ==
  \/ NextEnrich
  \/ \E states \in Polls(FeedIds, {BlankCallsignState(now)}) :
       process_opensky_states(states)

SpecBlank == InitEnrich /\ [][NextBlank]_vars

\* C22 as stated: the id the drain loop hands to the client has a record
\* whose callsign is neither absent nor empty nor blank, and the client
\* looks up no blank callsign.
C22_NoBlankCallsignHanded ==
  /\ (fa_pc = "enrich" /\ fa_icao24 \in DOMAIN current_aircraft
        => /\ current_aircraft[fa_icao24].opensky.callsign # None
           /\ strip(Val(current_aircraft[fa_icao24].opensky.callsign)) # <<>>)
  /\ (fa_pc = "fetch" => EnrichCallsign # <<>>)

(***************************************************************************)
(* Admission to the callsign cache (Hybrid.py lines 302-309, 355-365)      *)
(***************************************************************************)
\* the legs of an answer agree on origin, destination and aircraft type
LegsAgree(flights) ==
  \A j, k \in 1..Len(flights) :
    /\ flights[j].origin = flights[k].origin
    /\ flights[j].destination = flights[k].destination
    /\ flights[j].aircraft_type = flights[k].aircraft_type

\* C23: every cached answer has legs that agree on origin, destination and
\* aircraft type; an answer with two legs that differ in one of them does
\* not enter the cache, and an enrichment for a callsign that is not cached
\* issues a request (outside the quiet hours).
C23_CacheAdmitsOneRouteOnly ==
  /\ [](\A c \in DOMAIN fa_cache :
          /\ fa_cache[c].kind = "response" /\ fa_cache[c].data # None
          /\ Val(fa_cache[c].data) # <<>>
          /\ LegsAgree(Val(fa_cache[c].data)))
  /\ [][\A hour \in EnrichHours, outcome \in Outcomes :
          EnrichFetch(hour, outcome) /\ EnrichCallsign \notin DOMAIN fa_cache =>
            /\ (outcome.data # None /\ ~LegsAgree(Val(outcome.data)) =>
                  EnrichCallsign \notin DOMAIN fa_cache')
            /\ (can_process_flightaware_request(hour) =>
                  /\ http_log' # <<>> /\ Last(http_log') = now
                  /\ Len(SelectSeq(http_log', RecentHttp))
                       = Len(SelectSeq(http_log, RecentHttp)) + 1)]_vars

\* C23 witness: the callsign has been looked up twice and is not cached,
\* while an answer has been received (the record carries its result)
C23_Witness ==
  /\ Len(http_log) >= 2
  /\ fa_cache = EmptyDict
  /\ \E i \in DOMAIN current_aircraft :
       /\ current_aircraft[i].flightaware # None
       /\ Val(current_aircraft[i].flightaware).origin_airport = Some("SFO")

(***************************************************************************)
(* C24: notification after every change                                    *)
(***************************************************************************)
\* C24: every merge batch, an empty one included, invokes every registered
\* observer, and no enrichment value, the empty placeholder of lines 325-326
\* included, is on a record without the observers having been invoked since
\* it was written.
C24_EveryChangeNotifies ==
  /\ [](unannounced = {})
  /\ [][(\E states \in Polls(FeedIds, CallsignStates) :
            process_opensky_states(states))
        => notified' = on_aircraft_updated]_vars

(***************************************************************************)
(* SpecStale: SpecEnrich with polls that repeat an old state               *)
(***************************************************************************)
\* the remote feed answers with the state it had at the start of the run
StaleStates == {CallsignState(c, 0) : c \in BOOLEAN}

NextStale ==
  \/ NextEnrich
  \/ \E states \in Polls(FeedIds, StaleStates) : process_opensky_states(states)

SpecStale == InitEnrich /\ [][NextStale]_vars

\* C25: a merge batch that carries, for an id of the table, a state whose
\* last_contact is not later than the record's leaves the record in the
\* table with the same state fields and the same enrichment.
C25_NotNewerLeavesRecord ==
  [][\A states \in Polls(FeedIds, CallsignStates \cup StaleStates) :
       process_opensky_states(states) =>
         \A i \in DOMAIN states \cap DOMAIN current_aircraft :
           states[i].last_contact <= current_aircraft[i].opensky.last_contact
           => /\ i \in DOMAIN current_aircraft'
              /\ current_aircraft'[i].opensky = current_aircraft[i].opensky
              /\ current_aircraft'[i].flightaware
                   = current_aircraft[i].flightaware]_vars

\* a batch has been merged after the placeholder write (the observers have
\* been notified since) and it held the record's id (the record is older
\* than the expiry and still there), yet the record keeps its last_contact
C25_Witness ==
  /\ fa_pc = "fetch" /\ unannounced = {}
  /\ fa_icao24 \in DOMAIN current_aircraft
  /\ current_aircraft[fa_icao24].flightaware # None
  /\ now - current_aircraft[fa_icao24].opensky.last_contact
       > cfg.aircraft_expire_seconds

(***************************************************************************)
(* The queue under the drain worker (Hybrid.py lines 226-257)              *)
(***************************************************************************)
\* C26: a step of the drain worker takes out of fa_queue only ids whose
\* record is not in the table, or the id of the iteration, and that only
\* after the rate check of the iteration has recorded a slot; it never
\* reorders the ids it leaves. An id refused by the rate check stays where
\* it is in the queue, and every pass lists every queued id that is eligible.
C26_QueueKeepsRefusedIds ==
  [][/\ (rq_pc' = rq_pc =>
           /\ \A i \in SeqToSet(fa_queue) \ SeqToSet(fa_queue') :
                \/ i \notin DOMAIN current_aircraft
                \/ fa_pc = "remove" /\ i = fa_icao24
           /\ fa_queue' =
                SelectSeq(fa_queue, LAMBDA i : i \in SeqToSet(fa_queue')))
     /\ (fa_pc' = "remove" /\ fa_pc # "remove" => fa_pc = "dequeue")
     /\ (fa_pc' = "dequeue" /\ fa_pc # "dequeue" =>
           /\ fa_pc = "loop" /\ fa_icao24' = Head(unenriched)
           /\ Len(PrunedWindow) < cfg.max_flightaware_requests_per_minute
           /\ fa_request_times' = Append(PrunedWindow, now))
     /\ (fa_pc = "loop" /\ fa_pc' = "loop" /\ unenriched' # unenriched =>
           /\ fa_queue' = fa_queue
           /\ unenriched' = Tail(unenriched))
     /\ (fa_pc = "pass" /\ fa_pc' = "loop" =>
           \A i \in SeqToSet(fa_queue) :
             Eligible(i) => i \in SeqToSet(unenriched'))]_vars

\* the rate check has refused an eligible id that is queued with another
C26_Witness ==
  /\ fa_pc = "loop" /\ ~SlotFree
  /\ Len(fa_queue) = 2
  /\ fa_icao24 \in SeqToSet(fa_queue) \ handed
  /\ Eligible(fa_icao24)

(***************************************************************************)
(* Records that disappear under the enrichment (Hybrid.py 226-233, 311-392)*)
(***************************************************************************)
\* C27: a drain pass leaves in fa_queue no id whose record is not in the
\* table; and a step of the enrichment client that finds no record for its
\* id (at the read of line 314, at the placeholder write of line 326 or at
\* the final write of line 388) changes no record of the store or of the
\* ingestor, invokes no observer, and returns to the loop of the drain
\* worker, which goes on with the ids it has listed.
C27_MissingRecordIsSkipped ==
  /\ [][fa_pc = "pass" /\ fa_pc' = "loop"
        => SeqToSet(fa_queue') \subseteq DOMAIN current_aircraft]_vars
  /\ [][(/\ fa_pc \in {"enrich", "mark", "write"}
         /\ fa_pc' # fa_pc
         /\ fa_icao24 \notin DOMAIN current_aircraft)
        => (/\ UNCHANGED <<current_aircraft, aircraft>>
            /\ UNCHANGED <<notified, unannounced, lock, blocked>>
            /\ fa_pc' = "loop"
            /\ UNCHANGED <<unenriched, exited>>)]_vars

\* the answer of the network call has been parsed and the record the client
\* is about to write to has been evicted during the call
C27_Witness ==
  /\ fa_pc = "write" /\ enr_data # None
  /\ fa_icao24 \notin DOMAIN current_aircraft

(***************************************************************************)
(* The connection of the local feed (DumpSlurp.py lines 317-362)           *)
(***************************************************************************)
\* rd_pc by the states of the connection: "connecting" is Connecting,
\* "connected" and "lines" are Connected, "backoff" is Disconnected
Connected == rd_pc \in {"connected", "lines"}

\* C28: while the service runs, the reader that has lost or missed its
\* connection and sleeps leaves the sleep for a new connect attempt and
\* makes that attempt; it leaves the sleep for nothing else; a read timeout
\* on a live connection leaves the connection live; and the connection
\* becomes live from a connect attempt only.
C28_ReaderReconnects ==
  /\ (rd_pc = "backoff" ~> rd_pc = "connecting")
  /\ (rd_pc = "connecting" ~> (Connected \/ rd_pc = "backoff"))
  /\ [][rd_pc = "backoff" /\ rd_pc' # rd_pc => rd_pc' = "connecting"]_vars
  /\ [][rd_pc' = "backoff" /\ rd_pc # "backoff"
        => rd_pc \in {"connecting", "connected"}]_vars
  /\ [][DumpExpire => Connected']_vars
  /\ [][Connected' /\ ~Connected => rd_pc = "connecting"]_vars

\* a connection that has delivered a line has been lost and the reader
\* sleeps before its next attempt
C28_Witness ==
  /\ dump_running /\ rd_pc = "backoff"
  /\ aircraft # EmptyDict

(***************************************************************************)
(* Lines the handler drops (DumpSlurp.py lines 364-378)                    *)
(***************************************************************************)
\* fewer than 22 fields, or a hex ident that is empty once stripped
Dropped(m) == m.n < MinFields \/ strip(m.hex) = <<>>

\* C29: receiving a line with fewer than 22 fields, or with an empty hex
\* ident, leaves the ingestor's table and the store's records as they are,
\* and the reader stays in its read loop on the same connection.
C29_DroppedLineChangesNothing ==
  [][\A m \in Lines(FeedHex) :
       Dropped(m) /\ DumpRecv(m) =>
         /\ UNCHANGED <<aircraft, current_aircraft>>
         /\ rd_pc' = "lines"
         /\ "reader" \notin exited']_vars

\* the reader has taken a line from the connection and the ingestor's table
\* is empty: the line was dropped
C29_Witness ==
  /\ rd_pc = "lines" /\ aircraft = EmptyDict
  /\ "reader" \notin exited

(***************************************************************************)
(* SpecShard: DumpSlurp._fetch_aircraft over the shard documents           *)
(***************************************************************************)
\* how many nested calls of _fetch_aircraft a run follows
MaxDepth == 8

\* Python slices: s[:n] and s[n:], for n beyond the end too
Take(s, n) == SubSeq(s, 1, IF n < Len(s) THEN n ELSE Len(s))
Drop(s, n) == SubSeq(s, (IF n < Len(s) THEN n ELSE Len(s)) + 1, Len(s))

\* the id the type is resolved for, as get_aircraft_type_from_icao24
\* (lines 557-564) passes it on: upper case, six characters
ShardId == <<"A", "1", "B", "2", "C", "3">>

\* a shard document: the suffixes it lists with their type, and its
\* "children" list, None when it has no such key
ShardDoc(types, children) ==
  [null |-> FALSE, types |-> types, children |-> children]

\* the document `null`: json.loads gives None
JsonNull == [null |-> TRUE, types |-> EmptyDict, children |-> None]

\* what the server has for the prefix of length k: nothing (404), the
\* suffix of the id, the next longer prefix as a child, the full id as a
\* child, or the suffix and the child
ShardDocs(k) ==
  LET leaf == Put(EmptyDict, Drop(ShardId, k), "B738")
      next == Some({Take(ShardId, k + 1)})
  IN {None,
      Some(ShardDoc(leaf, None)),
      Some(ShardDoc(EmptyDict, next)),
      Some(ShardDoc(EmptyDict, Some({ShardId}))),
      Some(ShardDoc(leaf, next))}

\* the server: one document or none for every prefix of the id
ShardServers ==
  {[p \in {Take(ShardId, k) : k \in 1..AddressLength} |->
      <<d1, d2, d3, d4, d5, d6>>[Len(p)]] :
     d1 \in ShardDocs(1), d2 \in ShardDocs(2), d3 \in ShardDocs(3),
     d4 \in ShardDocs(4), d5 \in ShardDocs(5), d6 \in ShardDocs(6)}

\* line 564: _fetch_aircraft(icao24, 1) with an empty cache; lookups counts
\* the requests to the server
InitShard ==
  /\ now = 0
  /\ cfg = HybridConfig
  /\ aircraft = EmptyDict
  /\ rd_pc = "connecting"
  /\ cb_pc = "sleep"
  /\ cb_list = EmptyDict
  /\ current_aircraft = EmptyDict
  /\ lock = "free"
  /\ blocked = {}
  /\ EnrichInit
  /\ on_aircraft_updated = <<"store">>
  /\ snapshot = None
  /\ StartedInit
  /\ call_args \in {Some([icao24 |-> ShardId, split |-> 1, server |-> s,
                          type_database_cache |-> EmptyDict, lookups |-> 0,
                          loaded |-> {}, reloaded |-> {}]) :
                      s \in ShardServers}
  /\ call_result = None

\* lines 566-622: one call of _fetch_aircraft(icao24, split); ok tells
\* whether urlopen and json.loads get through. It returns a type or None,
\* or calls itself with split + 1 (line 620); a call nested deeper than
\* MaxDepth is not followed and counts as Python's RecursionError.
\* loaded and reloaded keep the prefixes whose document has been loaded, and
\* loaded again
fetch_aircraft(ok) ==
  /\ call_args # None /\ call_result = None
  /\ LET a == Val(call_args)
         prefix == Take(a.icao24, a.split)
         suffix == Drop(a.icao24, a.split)
         \* lines 578-583: "entry is None" also for a cached null
         fetch == \/ prefix \notin DOMAIN a.type_database_cache
                  \/ a.type_database_cache[prefix].null
         got == fetch /\ ok /\ a.server[prefix] # None
         entry == IF got THEN Val(a.server[prefix])
                  ELSE IF prefix \in DOMAIN a.type_database_cache
                       THEN a.type_database_cache[prefix]
                  ELSE JsonNull
         \* line 609: "not entry" for None and for an empty document
         empty == \/ entry.null
                  \/ entry.types = EmptyDict /\ entry.children = None
         sub == Take(a.icao24, a.split + 1)
         recurse == /\ ~empty
                    /\ suffix \notin DOMAIN entry.types
                    /\ entry.children # None
                    /\ sub \in Val(entry.children)
     IN /\ call_args' =
             Some([a EXCEPT
                     !.type_database_cache = IF got THEN Put(@, prefix, entry)
                                             ELSE @,
                     !.lookups = IF fetch THEN @ + 1 ELSE @,
                     !.loaded = IF got THEN @ \cup {prefix} ELSE @,
                     !.reloaded = IF got /\ prefix \in a.loaded
                                  THEN @ \cup {prefix} ELSE @,
                     !.split = IF recurse /\ a.split < MaxDepth
                               THEN a.split + 1 ELSE a.split])
        /\ call_result' =
             IF empty THEN Some(None)
             ELSE IF suffix \in DOMAIN entry.types
                  THEN Some(Some(entry.types[suffix]))
             ELSE IF ~recurse THEN Some(None)
             ELSE IF a.split < MaxDepth THEN None
             ELSE Some(Some("RecursionError"))
  /\ UNCHANGED <<now, cfg, on_aircraft_updated, snapshot, runVars, po_pc,
                 notified, unannounced, dumpVars, storeVars, enrichVars,
                 hookVars>>

NextShard == fetch_aircraft(TRUE)

SpecShard == InitShard /\ [][NextShard]_vars

\* C30 as stated: the split length of a call never exceeds 6, and a
\* resolution asks the server at most 6 times.
C30_SplitAtMostSix ==
  call_args # None =>
    /\ Val(call_args).split <= AddressLength
    /\ Val(call_args).lookups <= AddressLength

(***************************************************************************)
(* SpecCache: several resolutions over one shard cache                     *)
(***************************************************************************)
\* no new resolution is started once the server has been asked this often
MaxLookups == 6

\* what the server has for the prefix of length k: nothing (404), the
\* document null, the suffix of the id, or the next longer prefix as a child
CacheDocs(k) ==
  {None,
   Some(JsonNull),
   Some(ShardDoc(Put(EmptyDict, Drop(ShardId, k), "B738"), None)),
   Some(ShardDoc(EmptyDict, Some({Take(ShardId, k + 1)})))}

\* the first two shards vary, the third lists the suffix
CacheServers ==
  {[p \in {Take(ShardId, k) : k \in 1..AddressLength} |->
      IF Len(p) = 1 THEN d1 ELSE IF Len(p) = 2 THEN d2
      ELSE Some(ShardDoc(Put(EmptyDict, Drop(ShardId, Len(p)), "B738"), None))] :
     d1 \in CacheDocs(1), d2 \in CacheDocs(2)}

InitCache ==
  /\ now = 0
  /\ cfg = HybridConfig
  /\ aircraft = EmptyDict
  /\ rd_pc = "connecting"
  /\ cb_pc = "sleep"
  /\ cb_list = EmptyDict
  /\ current_aircraft = EmptyDict
  /\ lock = "free"
  /\ blocked = {}
  /\ EnrichInit
  /\ on_aircraft_updated = <<"store">>
  /\ snapshot = None
  /\ StartedInit
  /\ call_args \in {Some([icao24 |-> ShardId, split |-> 1, server |-> s,
                          type_database_cache |-> EmptyDict, lookups |-> 0,
                          loaded |-> {}, reloaded |-> {}]) :
                      s \in CacheServers}
  /\ call_result = None

\* line 564: the next resolution, _fetch_aircraft(icao24, 1), with the cache
\* as the resolutions before have left it
get_aircraft_type_from_icao24 ==
  /\ call_args # None /\ call_result # None
  /\ Val(call_args).lookups < MaxLookups
  /\ call_args' = Some([Val(call_args) EXCEPT !.split = 1])
  /\ call_result' = None
  /\ UNCHANGED <<now, cfg, on_aircraft_updated, snapshot, runVars, po_pc,
                 notified, unannounced, dumpVars, storeVars, enrichVars,
                 hookVars>>

NextCache ==
  \/ \E ok \in BOOLEAN : fetch_aircraft(ok)
  \/ get_aircraft_type_from_icao24

SpecCache == InitCache /\ [][NextCache]_vars

\* C31 as stated: no prefix is loaded again after it has been loaded; a
\* cached document is never removed or replaced; a fetch that fails caches
\* nothing and the prefix is fetched again when it is needed next.
C31_ShardLoadedOnce ==
  /\ [](call_args # None => Val(call_args).reloaded = {})
  /\ [][call_args # None /\ call_args' # None =>
          LET cache == Val(call_args).type_database_cache
              after == Val(call_args').type_database_cache
          IN /\ \A p \in DOMAIN cache :
                  p \in DOMAIN after /\ after[p] = cache[p]
             /\ DOMAIN after \subseteq Val(call_args').loaded]_vars

(***************************************************************************)
(* SpecFrame: the read loop of DumpSlurp._run over the chunks of a stream  *)
(***************************************************************************)
\* length of the byte streams
MaxStream == 4

\* bytes: an ASCII letter, the newline, and the two bytes of one UTF-8
\* character (a lead byte and its continuation byte)
LeadByte == "c3"
ContinuationByte == "a9"
StreamBytes == {"a", "\n", LeadByte, ContinuationByte}

\* line 335: bytes.decode('utf-8', errors='ignore'). A lead byte with its
\* continuation byte is one character (written "E"); a lead byte without,
\* and a continuation byte alone, are dropped
RECURSIVE decode(_)
decode(data) ==
  IF data = <<>> THEN <<>>
  ELSE IF data[1] = LeadByte
       THEN IF Len(data) >= 2 /\ data[2] = ContinuationByte
            THEN <<"E">> \o decode(SubSeq(data, 3, Len(data)))
            ELSE decode(Tail(data))
  ELSE IF data[1] = ContinuationByte THEN decode(Tail(data))
  ELSE <<data[1]>> \o decode(Tail(data))

\* position of the first newline of a text that has one
FirstNewline(text) ==
  CHOOSE k \in 1..Len(text) :
    text[k] = "\n" /\ \A j \in 1..(k - 1) : text[j] # "\n"

\* lines 338-342: the lines taken out of the buffer and passed to
\* _process_message (stripped, the empty ones skipped), and what stays
RECURSIVE ProcessLines(_)
ProcessLines(buffer) ==
  IF "\n" \notin SeqToSet(buffer) THEN [lines |-> <<>>, buffer |-> buffer]
  ELSE LET k == FirstNewline(buffer)
           line == strip(SubSeq(buffer, 1, k - 1))
           rest == ProcessLines(SubSeq(buffer, k + 1, Len(buffer)))
       IN [lines |-> IF line = <<>> THEN rest.lines
                     ELSE <<line>> \o rest.lines,
           buffer |-> rest.buffer]

\* after connect: the stream the peer will send, nothing received, the
\* buffer of line 327 empty, no line processed
InitFrame ==
  /\ now = 0
  /\ cfg = HybridConfig
  /\ aircraft = EmptyDict
  /\ rd_pc = "connected"
  /\ cb_pc = "sleep"
  /\ cb_list = EmptyDict
  /\ current_aircraft = EmptyDict
  /\ lock = "free"
  /\ blocked = {}
  /\ EnrichInit
  /\ on_aircraft_updated = <<"store">>
  /\ snapshot = None
  /\ StartedInit
  /\ call_args \in {Some([stream |-> s, received |-> <<>>, buffer |-> <<>>,
                          lines |-> <<>>]) :
                      s \in UNION {[1..n -> StreamBytes] : n \in 1..MaxStream}}
  /\ call_result = None

\* lines 330-342: recv() returns the next n bytes of the stream
recv(n) ==
  /\ call_args # None
  /\ n <= Len(Val(call_args).stream)
  /\ LET a == Val(call_args)
         data == SubSeq(a.stream, 1, n)
         out == ProcessLines(a.buffer \o decode(data))
     IN call_args' = Some([stream |-> SubSeq(a.stream, n + 1, Len(a.stream)),
                           received |-> a.received \o data,
                           buffer |-> out.buffer,
                           lines |-> a.lines \o out.lines])
  /\ UNCHANGED <<now, cfg, on_aircraft_updated, snapshot, runVars, po_pc,
                 notified, unannounced, call_result, dumpVars, storeVars,
                 enrichVars, hookVars>>

NextFrame == \E n \in 1..MaxStream : recv(n)

SpecFrame == InitFrame /\ [][NextFrame]_vars

\* C32 as stated: whatever the chunks, the lines processed so far and the
\* partial line kept in the buffer are those of the bytes received so far
\* taken as one chunk.
C32_FramingIgnoresChunking ==
  call_args # None =>
    LET a == Val(call_args)
        whole == ProcessLines(decode(a.received))
    IN a.lines = whole.lines /\ a.buffer = whole.buffer

(***************************************************************************)
(* SpecLegs: the leg the client uses (Hybrid.py lines 360-385)             *)
(***************************************************************************)
\* length of the lists of legs
MaxLegs == 3

\* the status of a leg: two that contain "En Route", two that do not, and
\* none for a leg without the key
LegStatuses ==
  {Some("En Route / On Time"), Some("En Route / Delayed"), Some("Arrived"),
   Some("Scheduled"), None}

\* the k-th leg of a list departs from the k-th airport
LegOrigins == <<"SFO", "LAX", "SEA", "DEN">>

LegLists ==
  UNION {{[k \in 1..n |-> [Leg("Arrived", LegOrigins[k], "JFK")
                             EXCEPT !.status = st[k]]] :
            st \in [1..n -> LegStatuses]} : n \in 0..MaxLegs}

InitLegs ==
  /\ now = 0
  /\ cfg = HybridConfig
  /\ aircraft = EmptyDict
  /\ rd_pc = "connecting"
  /\ cb_pc = "sleep"
  /\ cb_list = EmptyDict
  /\ current_aircraft = EmptyDict
  /\ lock = "free"
  /\ blocked = {}
  /\ EnrichInit
  /\ on_aircraft_updated = <<"store">>
  /\ snapshot = None
  /\ StartedInit
  /\ call_args \in {Some(flights) : flights \in LegLists}
  /\ call_result = None

\* lines 367-385 on data['flights']
CallSelectFlight ==
  /\ call_result = None
  /\ call_result' = Some(MakeFlightAwareData(SelectFlight(Val(call_args))))
  /\ UNCHANGED <<now, cfg, on_aircraft_updated, snapshot, runVars, po_pc,
                 notified, unannounced, call_args, dumpVars, storeVars,
                 enrichVars, hookVars>>

NextLegs == CallSelectFlight

SpecLegs == InitLegs /\ [][NextLegs]_vars

\* C33: the enrichment is made from the first leg, in list order, whose
\* status contains "En Route"; from the first leg of the list when no leg has
\* such a status; and has every field None when the list is empty.
C33_FirstEnRouteLeg ==
  call_result # None =>
    LET flights == Val(call_args)
        data == Val(call_result)
        hits == {k \in 1..Len(flights) :
                   flights[k].status \in {Some("En Route / On Time"),
                                          Some("En Route / Delayed")}}
    IN IF hits # {}
       THEN data.origin_airport
              = Some(LegOrigins[CHOOSE k \in hits : \A j \in hits : k <= j])
       ELSE IF flights # <<>>
       THEN data.origin_airport = Some(LegOrigins[1])
       ELSE \A f \in DOMAIN data : data[f] = None

\* the list starts with a leg that has arrived, an en-route leg follows, and
\* the enrichment is the en-route leg's
C33_Witness ==
  /\ call_result # None /\ Len(Val(call_args)) = MaxLegs
  /\ Val(call_args)[1].status = Some("Arrived")
  /\ Val(call_args)[2].status = Some("En Route / Delayed")
  /\ Val(call_result).origin_airport = Some(LegOrigins[2])

(***************************************************************************)
(* SpecLookup: lines whose type lookup raises at the creation of a record  *)
(***************************************************************************)
\* lines with a parseable and with an unparseable timestamp, for an ident
\* whose type lookup returns and for one whose lookup raises
LookupLines ==
  {[Line(k, h, t) EXCEPT !.raises = r] :
     k \in {"ident", "position"}, h \in FeedHex, t \in {None, Some(now)},
     r \in BOOLEAN}

\* the clock is past 0, so that the fallback timestamp is not the default
InitLookup ==
  /\ now = ClockStep
  /\ cfg = [HybridConfig EXCEPT !.opensky = FALSE]
  /\ aircraft = EmptyDict
  /\ rd_pc = "connecting"
  /\ cb_pc = "sleep"
  /\ cb_list = EmptyDict
  /\ current_aircraft = EmptyDict
  /\ lock = "free"
  /\ blocked = {}
  /\ EnrichInit
  /\ on_aircraft_updated = <<"store">>
  /\ snapshot = None
  /\ StartedInit
  /\ NoCall

NextLookup ==
  \/ Tick
  \/ \E ok \in BOOLEAN : DumpConnect(ok)
  \/ \E m \in LookupLines : DumpRecv(m)
  \/ DumpExpire
  \/ DumpDisconnect
  \/ DumpRetry
  \/ CallbackTake
  \/ process_dump1090_states

SpecLookup == InitLookup /\ [][NextLookup]_vars

\* C34 as stated: no record of the ingestor's table, and no record the
\* periodic callback has put into the store, has the default last_contact 0.
C34_LastContactIsSet ==
  /\ \A i \in DOMAIN aircraft : aircraft[i].last_contact # 0
  /\ \A i \in DOMAIN current_aircraft :
       current_aircraft[i].opensky.last_contact # 0

(***************************************************************************)
(* Mutations and the store lock (Hybrid.py lines 253-257)                  *)
(***************************************************************************)
\* C35 as stated: while the consumer's thread holds the store lock inside
\* request_enrich, no other thread changes the queue or a record of the
\* table: whoever mutates them holds the lock, which is held already.
C35_MutationsHoldTheLock ==
  [][lock = "consumer" =>
       /\ (fa_queue' # fa_queue => rq_pc' # rq_pc)
       /\ current_aircraft' = current_aircraft]_vars

(***************************************************************************)
(* SpecFetch: the type lookup inside _process_message, step by step        *)
(***************************************************************************)
FetchLines == {Line(k, h, Some(now)) : k \in {"ident", "position"}, h \in FeedHex}

\* lines 364-418: the handler up to the call of
\* get_aircraft_type_from_icao24 for a new ident. DumpSlurp._lock was taken
\* at line 409 and the new object is in the table (line 417); rd_pc =
\* "lookup" while the request of lines 586-590 is in flight. A line for a
\* known ident, and a dropped line, need no lookup.
DumpRecvBegin(m) ==
  /\ rd_pc \in {"connected", "lines"} /\ Active("reader")
  /\ call_args = None
  /\ IF m.n < MinFields \/ lower(strip(m.hex)) \in DOMAIN aircraft \cup {<<>>}
     THEN /\ process_message(m)
          /\ rd_pc' = "lines"
          /\ UNCHANGED call_args
     ELSE /\ aircraft' = Put(aircraft, lower(strip(m.hex)), NewOpenSkyData)
          /\ rd_pc' = "lookup"
          /\ call_args' = Some(m)
          /\ UNCHANGED current_aircraft
  /\ UNCHANGED <<now, cfg, on_aircraft_updated, snapshot, runVars, po_pc,
                 notified, unannounced, call_result, cb_pc, cb_list, lock,
                 blocked, enrichVars, hookVars>>

\* lines 418-446: the lookup has returned, the handler updates the object
\* and releases DumpSlurp._lock
DumpRecvEnd ==
  /\ rd_pc = "lookup" /\ call_args # None
  /\ process_message(Val(call_args))
  /\ rd_pc' = "lines"
  /\ call_args' = None
  /\ UNCHANGED <<now, cfg, on_aircraft_updated, snapshot, runVars, po_pc,
                 notified, unannounced, call_result, cb_pc, cb_list, lock,
                 blocked, enrichVars, hookVars>>

\* get_aircraft (lines 301-304) takes DumpSlurp._lock
CallbackTakeLocked == rd_pc # "lookup" /\ CallbackTake

NextFetch ==
  \/ Tick
  \/ \E ok \in BOOLEAN : DumpConnect(ok)
  \/ \E m \in FetchLines : DumpRecvBegin(m)
  \/ DumpRecvEnd
  \/ DumpExpire
  \/ DumpDisconnect
  \/ DumpRetry
  \/ CallbackTakeLocked
  \/ process_dump1090_states

SpecFetch == InitLookup /\ [][NextFetch]_vars

\* C36 as stated: the reader never has a request to the type database in
\* flight while it holds the lock of the ingestor's table, and the
\* enrichment client never has its request in flight while it holds the
\* store lock.
C36_NoRequestUnderLock ==
  /\ rd_pc # "lookup"
  /\ (fa_pc = "fetch" => lock # "drain")

(***************************************************************************)
(* SpecLife: any sequence of start() and stop() calls, and the threads     *)
(* they create.  call_args holds, for every worker loop, the number of     *)
(* live threads that are at the check of the loop ("check") and the number *)
(* that are inside an iteration ("iter": a sleep, a connect, a request).   *)
(***************************************************************************)
MaxThreads == 2

Threads(t, w) == t.check[w] + t.iter[w]

NoThreads == [check |-> [w \in Workers |-> 0], iter |-> [w \in Workers |-> 0]]

\* HybridAPI.__init__ (lines 71-73) and DumpSlurp.__init__ (lines 270-272):
\* the flags are False and no thread exists
InitLife ==
  /\ now = 0
  /\ cfg = WorkersConfig
  /\ aircraft = EmptyDict
  /\ rd_pc = "connecting"
  /\ cb_pc = "sleep"
  /\ cb_list = EmptyDict
  /\ current_aircraft = EmptyDict
  /\ lock = "free"
  /\ blocked = {}
  /\ EnrichInit
  /\ on_aircraft_updated = <<"store">>
  /\ snapshot = None
  /\ running = FALSE
  /\ dump_running = FALSE
  /\ inflight = {}
  /\ exited = {}
  /\ po_pc = "poll"
  /\ notified = <<>>
  /\ unannounced = {}
  /\ call_args = Some(NoThreads)
  /\ call_result = None

\* HybridAPI.start (lines 84-106) with DumpSlurp.start (lines 280-291):
\* "if self.running: return", else the flag is set and one new Thread per
\* configured loop is created and started; DumpSlurp.start does the same
\* behind its own flag
start ==
  LET t == Val(call_args)
      made == IF running THEN {}
              ELSE {w \in Workers :
                      w \in {"reader", "callback"} => ~dump_running}
  IN /\ \A w \in Workers : Threads(t, w) < MaxThreads
     /\ running' = TRUE
     /\ dump_running' = IF running THEN dump_running
                        ELSE (dump_running \/ cfg.dump1090)
     /\ call_args' = Some([t EXCEPT !.check =
                             [w \in Workers |->
                                t.check[w] + IF w \in made THEN 1 ELSE 0]])
     /\ UNCHANGED <<now, cfg, on_aircraft_updated, snapshot, inflight, exited,
                    po_pc, notified, unannounced, call_result, dumpVars,
                    storeVars, enrichVars, hookVars>>

\* HybridAPI.stop (lines 108-120) with DumpSlurp.stop (lines 293-299): the
\* flags are cleared and each thread is joined with timeout=5.  A thread at
\* the check of its loop sees the flag and ends within the join; a thread
\* inside an iteration ends within the join when the iteration is short and
\* is still alive when the join gives up otherwise (time.sleep(30) at
\* DumpSlurp.py line 362, opensky_refresh_interval and time.sleep(10) at
\* Hybrid.py lines 145 and 149, requests.get(timeout=10) at line 352)
stop_join ==
  LET t == Val(call_args)
  IN /\ running' = FALSE
     /\ dump_running' = FALSE
     /\ \E left \in [Workers -> 0..MaxThreads] :
          /\ \A w \in Workers : left[w] <= t.iter[w]
          /\ call_args' = Some([check |-> [w \in Workers |-> 0],
                                iter |-> left])
     /\ UNCHANGED <<now, cfg, on_aircraft_updated, snapshot, inflight, exited,
                    po_pc, notified, unannounced, call_result, dumpVars,
                    storeVars, enrichVars, hookVars>>

\* "while self.running:" / "while self._running:" finds the flag set: the
\* thread begins an iteration
ThreadEnter(w) ==
  LET t == Val(call_args)
  IN /\ t.check[w] > 0 /\ FlagOf(w)
     /\ call_args' = Some([check |-> [t.check EXCEPT ![w] = @ - 1],
                           iter |-> [t.iter EXCEPT ![w] = @ + 1]])
     /\ UNCHANGED <<now, cfg, on_aircraft_updated, snapshot, runVars, po_pc,
                    notified, unannounced, call_result, dumpVars, storeVars,
                    enrichVars, hookVars>>

\* the iteration ends (the sleep returns): the thread is back at the check
ThreadLeave(w) ==
  LET t == Val(call_args)
  IN /\ t.iter[w] > 0
     /\ call_args' = Some([check |-> [t.check EXCEPT ![w] = @ + 1],
                           iter |-> [t.iter EXCEPT ![w] = @ - 1]])
     /\ UNCHANGED <<now, cfg, on_aircraft_updated, snapshot, runVars, po_pc,
                    notified, unannounced, call_result, dumpVars, storeVars,
                    enrichVars, hookVars>>

\* the check finds the flag cleared: the loop and the thread end
ThreadExit(w) ==
  LET t == Val(call_args)
  IN /\ t.check[w] > 0 /\ ~FlagOf(w)
     /\ call_args' = Some([t EXCEPT !.check[w] = @ - 1])
     /\ UNCHANGED <<now, cfg, on_aircraft_updated, snapshot, runVars, po_pc,
                    notified, unannounced, call_result, dumpVars, storeVars,
                    enrichVars, hookVars>>

NextLife ==
  \/ start
  \/ stop_join
  \/ \E w \in Workers : ThreadEnter(w)
  \/ \E w \in Workers : ThreadLeave(w)
  \/ \E w \in Workers : ThreadExit(w)

SpecLife == InitLife /\ [][NextLife]_vars

\* C37: whatever start() and stop() calls were made, each worker loop (the
\* remote poller, the socket reader, the periodic callback loop, the
\* enrichment drain worker) is executed by at most one live thread.
C37_OneThreadPerLoop ==
  \A w \in Workers : Threads(Val(call_args), w) <= 1

(***************************************************************************)
(* SpecEvict: the local feed alone, the clock running, the reader          *)
(* connecting, failing to connect, reading, losing the connection and      *)
(* retrying, and the periodic callback delivering the ingestor's table     *)
(***************************************************************************)
EvictConfig == [HybridConfig EXCEPT !.opensky = FALSE]

InitEvict ==
  /\ now = 0
  /\ cfg = EvictConfig
  /\ aircraft = EmptyDict
  /\ rd_pc = "connecting"
  /\ cb_pc = "sleep"
  /\ cb_list = EmptyDict
  /\ current_aircraft = EmptyDict
  /\ lock = "free"
  /\ blocked = {}
  /\ EnrichInit
  /\ on_aircraft_updated = <<"store">>
  /\ snapshot = None
  /\ StartedInit
  /\ NoCall

\* the callback never raises here: every delivery reaches the merge
EvictCallback ==
  \/ CallbackTake
  \/ process_dump1090_states

NextEvict ==
  \/ ReaderLoop
  \/ EvictCallback
  \/ Tick

\* time passes, and both threads of the ingestor keep running
SpecEvict ==
  /\ InitEvict /\ [][NextEvict]_vars
  /\ WF_vars(ReaderLoop)
  /\ WF_vars(EvictCallback)
  /\ WF_vars(Tick)

\* the record of i is in the Fusion Store table and older than the window
AgedInStore(i) ==
  /\ i \in DOMAIN current_aircraft
  /\ now - current_aircraft[i].opensky.last_contact
       > cfg.aircraft_expire_seconds

\* C38: while the service runs, a record of the Fusion Store table whose age
\* exceeds the expiry window is eventually removed from the table, unless
\* newer contact arrives for it; also while the reader is in backoff or
\* fails to connect and the periodic callback keeps delivering.
C38_AgedRecordIsEvicted ==
  \A i \in FeedIds : AgedInStore(i) ~> ~AgedInStore(i)

(***************************************************************************)
(* The slot of a hand-off (Hybrid.py lines 244-257, 280-290, 311-353)      *)
(***************************************************************************)
\* positions of the drain worker inside _enrich_with_flightaware, from the
\* call of line 257 to the request of line 352
InClient == {"enrich", "mark", "fetch"}

\* C39: the drain worker hands an id to the enrichment client only from an
\* iteration whose rate check has just appended exactly one timestamp, the
\* present time, to the pruned rate window; that timestamp stays in the
\* window however the client call ends (vanished record, quiet hours, cache
\* hit, request); and an HTTP request is issued only by the client call of
\* such an iteration, one request at most per call, so that the requests
\* issued never outnumber the slots granted.
C39_HandOffTakesOneSlot ==
  [][/\ (fa_pc' = "dequeue" /\ fa_pc # "dequeue" =>
           /\ fa_pc = "loop"
           /\ fa_request_times' = Append(PrunedWindow, now))
     /\ (fa_pc' = "enrich" /\ fa_pc # "enrich" =>
           /\ fa_pc \in {"dequeue", "remove"}
           /\ fa_request_times' = fa_request_times)
     /\ (fa_pc \in InClient =>
           /\ fa_request_times # <<>>
           /\ fa_request_times' = fa_request_times
           /\ fa_pc' # fa_pc => fa_pc' \notin {"dequeue", "remove", "enrich"})
     /\ (http_log' # http_log =>
           /\ fa_pc = "fetch" /\ fa_pc' \notin InClient
           /\ Len(http_log') <= Len(http_log) + 1)
    ]_vars

\* C39 witness: the client was called for an id whose record had vanished;
\* it returned at once, no request was ever issued, and the slot of the call
\* is in the rate window
C39_Witness ==
  /\ fa_pc = "loop"
  /\ fa_icao24 # <<>>
  /\ fa_icao24 \notin DOMAIN current_aircraft
  /\ fa_icao24 \notin SeqToSet(fa_queue)
  /\ http_log = <<>>
  /\ fa_request_times = <<now>>

(***************************************************************************)
(* SpecLocal: the local feed alone, any sequence of lines                  *)
(***************************************************************************)
NextLocal ==
  \/ Tick
  \/ \E ok \in BOOLEAN : DumpConnect(ok)
  \/ \E m \in Lines(FeedHex) : DumpRecv(m)
  \/ DumpExpire
  \/ DumpDisconnect
  \/ DumpRetry
  \/ CallbackTake
  \/ process_dump1090_states

SpecLocal == InitEvict /\ [][NextLocal]_vars

\* C40: in every record of the ingestor's table last_position is unset or at
\* most last_contact, and a step changes last_position of a record only by
\* receiving a line that carries both latitude and longitude.
C40_PositionNotAfterContact ==
  /\ [](\A i \in DOMAIN aircraft :
          \/ aircraft[i].last_position = None
          \/ Val(aircraft[i].last_position) <= aircraft[i].last_contact)
  /\ [][\A i \in DOMAIN aircraft' :
          LET before == IF i \in DOMAIN aircraft
                        THEN aircraft[i].last_position ELSE None
          IN aircraft'[i].last_position # before =>
               \E m \in Lines(FeedHex) :
                 DumpRecv(m) /\ m.lat # None /\ m.lon # None]_vars
====
